---- MODULE Spec2Model ----
(***************************************************************************)
(* The quickwit actor runtime (quickwit-actors/src/actor.rs) and the       *)
(* indexing pipeline supervisor (quickwit-indexing/src/actors/             *)
(* indexing_pipeline.rs) as state machines.                                *)
(*                                                                         *)
(* Spec       one actor: its driver loop, its mailbox (high-priority and   *)
(*            low-priority queue), the scheduler's timed callbacks, the    *)
(*            chain of kill switches above it, and the clock.              *)
(*                                                                         *)
(* Time is kept by relative timers that the Tick action decrements; a step *)
(* that the runtime takes without waiting (the loop head, the delivery of  *)
(* an available message, a due callback) must be taken before Tick, while  *)
(* user code (initialize, handle, finalize) may take any amount of time.   *)
(***************************************************************************)
EXTENDS Naturals, Integers, Sequences, FiniteSets, Bags, TLC

\* ---------------------------------------------------------------- bounds
MaxSend == 2           \* messages one producer sends
MaxCmds == 2           \* commands sent through the actor handle
MaxSleeps == 2         \* calls of ActorContext::sleep
MaxSleepDuration == 2  \* longest sleep, in seconds

\* quickwit_actors::HEARTBEAT, in seconds
HEARTBEAT == 3

Producers == {1, 2}

\* ActorExitStatus (actor.rs 48-95)
ActorExitStatus ==
    {"Success", "Quit", "DownstreamClosed", "Killed", "Failure", "Panicked"}

\* Command; ExitWithSuccess travels on the low-priority queue
\* (send_exit_with_success), the others on the high-priority one.
HandleCommands == {"Pause", "Resume", "Quit", "Kill", "Observe", "Nudge"}

\* ActorState
ActorState == {"Idle", "Processing", "Paused", "Success", "Failure"}
Terminal == {"Success", "Failure"}

\* The kill switches above the actor: each is the child() of the one before it.
Switches == {"universe", "supervisor", "actor"}

\* Spawn attempts an IndexingPipeline makes, and children per generation
\* that fail or stall
MaxAttempts == 2
MaxChildEvents == 1

\* The kill switch each spawn attempt of an IndexingPipeline creates
AttemptSwitch == <<"attempt1", "attempt2", "attempt3", "attempt4",
                   "attempt5", "attempt6", "attempt7", "attempt8",
                   "attempt9", "attempt10", "attempt11", "attempt12",
                   "attempt13", "attempt14", "attempt15", "attempt16">>
\* The switches of a pipeline: the universe's, the supervisor's own
\* (ctx.kill_switch()), KillSwitch::default() and those of the attempts
PipelineSwitches ==
    {"universe", "supervisor", "default"}
        \cup {AttemptSwitch[i] : i \in 1..MaxAttempts}
\* spawn_actor handing out a fresh switch instead of a child of its own
SwitchParent_detached(s) == "none"

SwitchParent(s) ==
    CASE s = "actor" -> "supervisor"
      [] s = "supervisor" -> "universe"
      [] s \in {AttemptSwitch[i] : i \in DOMAIN AttemptSwitch} -> "supervisor"
      [] OTHER -> "none"

VARIABLES
    actor_state,     \* ActorContextInner::actor_state
    sleep_count,     \* ActorContextInner::sleep_count
    dead,            \* kill switch -> whether it is killed
    pc,              \* where the actor's task is
    cur,             \* the message being handled
    hi_queue,        \* the inbox's high-priority queue
    lo_queue,        \* the inbox's low-priority queue
    heap,            \* the scheduler's callbacks, in insertion order
    recv_timer,      \* time left before the pull in progress times out
    exit_status,     \* the status the loop broke with
    finalize_calls,  \* how many times finalize was invoked
    finalize_status, \* the status finalize was last invoked with
    producers,       \* producers whose mailbox handle is alive
    sent,            \* producer -> messages sent
    cmds_sent,       \* commands sent through the handle
    hi_sent,         \* items ever put on the high-priority queue
    handled,         \* producer -> sequence number of the last message handled
    hi_handled,      \* sequence number of the last high-priority item taken
    sleep_left,      \* sleep call -> time left of its duration
    resumed,         \* sleep call -> a Resume command was processed since
    ended_early,     \* sleep call -> a Resume command ended it before its time
    fired,           \* sleep call -> how many times its WakeUp was put on the
                     \* high-priority queue
    since_kill,      \* time since a switch above the actor was killed, -1 before
    after_kill,      \* at that kill: sent (per producer the messages sent) and
                     \* busy (user code was running); since then: all (messages
                     \* dispatched) and queued (those of them queued at the kill)
    pipeline,        \* the IndexingPipeline supervisor, its children and switches
    handle,          \* an actor's Progress and what its ActorHandle reports
    call,            \* the last call of a function on its own: fn, arg, ret
    spawning         \* SPAWN_PIPELINE_SEMAPHORE and, per pipeline of the
                     \* process, where it is with respect to spawn_pipeline

actorvars == <<actor_state, sleep_count, dead, pc, cur, hi_queue, lo_queue,
               heap, recv_timer, exit_status, finalize_calls, finalize_status,
               producers, sent, cmds_sent, hi_sent, handled, hi_handled,
               sleep_left, resumed, ended_early, fired, since_kill,
               after_kill>>

vars == <<actorvars, pipeline, handle, call, spawning>>

\* What the actions of one part of the model leave alone
aside_actor == <<pipeline, handle, call, spawning>>
aside_pipeline == <<actorvars, handle, call, spawning>>
aside_handle == <<actorvars, pipeline, call, spawning>>
aside_call == <<actorvars, pipeline, handle, spawning>>
aside_spawning == <<actorvars, pipeline, handle, call>>

NoCall == [fn |-> "none", arg |-> 0, ret |-> 0]

NoMsg == [kind |-> "None", arg |-> 0, id |-> 0]
Item(k, a, i) == [kind |-> k, arg |-> a, id |-> i]

\* ------------------------------------------------------------ AtomicState
\* Idle -> Processing
AtomicState_process(st) == IF st = "Idle" THEN "Processing" ELSE st
\* Processing -> Idle
AtomicState_idle(st) == IF st = "Processing" THEN "Idle" ELSE st
\* Idle/Processing -> Paused
AtomicState_pause(st) == IF st \in {"Idle", "Processing"} THEN "Paused" ELSE st
\* Paused -> Processing
AtomicState_resume(st) == IF st = "Paused" THEN "Processing" ELSE st
\* any non-terminal -> Success | Failure
AtomicState_exit(st, success) ==
    IF st \in Terminal THEN st
    ELSE IF success THEN "Success" ELSE "Failure"

\* -------------------------------------------------------------- KillSwitch
RECURSIVE Derived(_, _)
\* s is t or was derived from t by child() calls
Derived(s, t) ==
    IF s = t THEN TRUE
    ELSE IF s = "none" THEN FALSE
    ELSE Derived(SwitchParent(s), t)

\* KillSwitch::kill: the switch and every switch derived from it
KillSwitch_kill(d, s) == [x \in DOMAIN d |-> d[x] \/ Derived(x, s)]

\* ------------------------------------------------------------ ActorContext
\* is_success that counts the graceful Quit as a success
is_success_graceful(exit) == exit \in {"Success", "Quit"}

is_success(exit) == exit = "Success"

\* should_activate_kill_switch with Killed treated as an unexpected exit
should_activate_kill_switch_killed(exit) == exit \notin {"Success", "Quit"}

should_activate_kill_switch(exit) ==
    CASE exit = "DownstreamClosed" -> TRUE
      [] exit = "Failure" -> TRUE
      [] exit = "Panicked" -> TRUE
      [] exit = "Success" -> FALSE
      [] exit = "Quit" -> FALSE
      [] exit = "Killed" -> FALSE

process(st) == AtomicState_process(st)
idle(st) == AtomicState_idle(st)
pause(st) == AtomicState_pause(st)
resume(st) == AtomicState_resume(st)

\* exit storing the final state whatever the current one is
exit_state_store(st, exit) == IF is_success(exit) THEN "Success" ELSE "Failure"

\* ActorContext::exit: the new actor state
exit_state(st, exit) == AtomicState_exit(st, is_success(exit))
\* ActorContext::exit: the new kill switches
exit_switches(d, exit) ==
    IF should_activate_kill_switch(exit) THEN KillSwitch_kill(d, "actor") ELSE d

\* a WakeUp handler that resumes whatever nap the message was sent for
WakeUp_handle_any_nap(st, current_sleep_count, message_sleep_count) ==
    resume(st)

\* a WakeUp handler that resumes nothing
WakeUp_handle_never(st, current_sleep_count, message_sleep_count) == st

\* Handler<WakeUp>::handle: the new actor state
WakeUp_handle(st, current_sleep_count, message_sleep_count) ==
    IF current_sleep_count = message_sleep_count THEN resume(st) ELSE st

\* ---------------------------------------------------------------- Mailbox
\* Mailbox::send_message: the low-priority queue afterwards
Mailbox_send_message(q, msg) == Append(q, msg)

\* Mailbox::send_message_with_high_priority: the high-priority queue afterwards
Mailbox_send_message_with_high_priority(q, msg) == Append(q, msg)

\* send_message putting the message in front of the queued ones
send_message_front(q, msg) == <<msg>> \o q

\* ActorContext::send_message: the destination's low-priority queue afterwards
send_message(q, msg) == Mailbox_send_message(q, msg)

\* ------------------------------------------------------------------ Inbox
\* The pull preferring the message queue to the command queue
Inbox_next_messages_first(hi, lo, st) ==
    IF lo # <<>> /\ st # "Paused" THEN "lo"
    ELSE IF hi # <<>> THEN "hi"
    ELSE "none"

\* Which queue the pull takes from: "hi", "lo" or "none".
\* The pull of a paused actor taking nothing at all
Inbox_next_paused_blocks(hi, lo, st) ==
    IF st = "Paused" THEN "none"
    ELSE IF hi # <<>> THEN "hi"
    ELSE IF lo # <<>> THEN "lo"
    ELSE "none"

Inbox_next(hi, lo, st) ==
    IF hi # <<>> THEN "hi"
    ELSE IF lo # <<>> /\ st # "Paused" THEN "lo"
    ELSE "none"

\* Disconnected that does not look at the external mailbox handles
Disconnected_callbacks_only == heap = <<>>

\* No producer is left that could still send: every external mailbox handle
\* is dropped and no scheduled callback holds a clone of the mailbox.
Disconnected == producers = {} /\ heap = <<>>

Min(a, b) == IF a < b THEN a ELSE b

\* -------------------------------------------------------- IndexingPipeline
MAX_RETRY_DELAY == 600

\* A usize is written as its four 16-bit limbs, the most significant
\* first, and a u32 as its two: <<w3, w2, w1, w0>> is
\* ((w3 * U16 + w2) * U16 + w1) * U16 + w0.
U16 == 65536

Limb == 0..(U16 - 1)

\* a small count as a usize
usize(n) == <<0, 0, 0, n>>

\* retry_count as u32: the cast keeps the low 32 bits
as_u32(x) == <<x[3], x[4]>>

u32_MAX == <<U16 - 1, U16 - 1>>

\* x + 1 on u32. On overflow a build with overflow checks (debug) panics
\* and a build without them (release) wraps around to 0.
u32_add_one(x, overflow_checks) ==
    IF x = u32_MAX
    THEN [panicked |-> overflow_checks, value |-> <<0, 0>>]
    ELSE [panicked |-> FALSE,
          value |-> IF x[2] = U16 - 1 THEN <<x[1] + 1, 0>>
                    ELSE <<x[1], x[2] + 1>>]

\* x.min(n) on u32, for n below U16
u32_min(x, n) == IF x[1] > 0 THEN n ELSE Min(x[2], n)

\* base.pow(exp).min(cap): the power fits a u64 for every exp up to 63,
\* and is computed here only as far as cap
pow_min(base, exp, cap) ==
    LET RECURSIVE pow(_)
        pow(e) == IF e = 0 THEN 1
                  ELSE LET below == pow(e - 1)
                       IN  IF below >= cap THEN below ELSE base * below
    IN  Min(pow(exp), cap)

\* the exponent wait_duration_before_retry uses
max_power(retry_count, overflow_checks) ==
    LET sum == u32_add_one(as_u32(retry_count), overflow_checks)
    IN  [panicked |-> sum.panicked, value |-> u32_min(sum.value, 31)]

\* The duration, in seconds, or the panic of the addition
wait_duration_before_retry(retry_count, overflow_checks) ==
    LET power == max_power(retry_count, overflow_checks)
    IN  IF power.panicked THEN [panicked |-> TRUE, secs |-> 0]
        ELSE [panicked |-> FALSE,
              secs |-> pow_min(2, power.value, MAX_RETRY_DELAY)]

\* static SPAWN_PIPELINE_SEMAPHORE: Semaphore = Semaphore::const_new(10)
SPAWN_PIPELINE_SEMAPHORE == 10

\* The IndexingPipeline actors of the process
NumPipelines == 11

Pipelines == 1..NumPipelines

\* Every pipeline is outside spawn_pipeline, and no permit is taken.
\* permit: the pipeline's _spawn_pipeline_permit holds a permit.
Spawning_new ==
    [permits |-> SPAWN_PIPELINE_SEMAPHORE,
     at |-> [i \in Pipelines |-> "outside"],
     permit |-> [i \in Pipelines |-> FALSE]]

\* spawn_pipeline with `let _ = SPAWN_PIPELINE_SEMAPHORE.acquire()`: the
\* permit is dropped as soon as it is acquired
acquire_and_drop(sp, i) == [sp EXCEPT !.at[i] = "inside"]

\* let _spawn_pipeline_permit = SPAWN_PIPELINE_SEMAPHORE.acquire().await:
\* the permit is taken and kept in a local of spawn_pipeline
acquire(sp, i) ==
    [sp EXCEPT !.permits = @ - 1, !.permit[i] = TRUE, !.at[i] = "inside"]

\* spawn_pipeline returns, with Ok or with an error, or its future is
\* dropped: the local is dropped, and with it the permit
leave(sp, i) ==
    [sp EXCEPT !.permits = IF sp.permit[i] THEN @ + 1 ELSE @,
               !.permit[i] = FALSE,
               !.at[i] = "outside"]

\* spawn_pipeline that forgets its permit when it returns an error
spawn_pipeline_exit_forget(sp, i, outcome) ==
    IF outcome = "Ok" THEN leave(sp, i)
    ELSE [sp EXCEPT !.permit[i] = FALSE, !.at[i] = "outside"]

\* spawn_pipeline returns Ok(()) at its end or an error at one of its `?`:
\* _spawn_pipeline_permit goes out of scope on either path
spawn_pipeline_exit(sp, i, outcome) == leave(sp, i)

\* IndexingPipelineHandles
Children == {"source", "doc_processor", "indexer", "index_serializer",
             "packager", "uploader", "sequencer", "publisher"}

\* What a handle tells of its actor: Stalled is an actor that is not
\* paused and has stopped recording progress
ChildState == {"Absent", "Running", "Stalled", "Success", "Failure"}

\* Supervisable::health
Supervisable_health(st) ==
    CASE st = "Success" -> "Success"
      [] st \in {"Failure", "Stalled"} -> "FailureOrUnhealthy"
      [] OTHER -> "Healthy"

\* The children from the source down to the publisher: each feeds the next
PipelineOrder == <<"source", "doc_processor", "indexer", "index_serializer",
                   "packager", "uploader", "sequencer", "publisher">>

\* The handles whose kill() terminate awaits
KilledByTerminate == {"source", "indexer", "packager", "uploader", "publisher"}

\* IndexingPipeline::new, with the actor's surroundings: where its task is
\* (status, exit_status), the kill switches (dead), the actors behind the
\* handles (children, child_events), the actors of terminated generations
\* that have not ended yet (released) and its outstanding self-messages
IndexingPipeline_new ==
    [status |-> "initialize",
     exit_status |-> "None",
     handles |-> FALSE,
     kill_switch |-> "default",
     statistics |-> [generation |-> 0, num_spawn_attempts |-> 0],
     previous_generations_statistics |->
         [generation |-> 0, num_spawn_attempts |-> 0],
     children |-> [c \in Children |-> "Absent"],
     child_events |-> 0,
     released |-> {},
     dead |-> [s \in PipelineSwitches |-> FALSE],
     scheduled |-> EmptyBag,
     attempts |-> << >>]

\* ------------------------------------------------------------ ActorHandle
\* Progress updates one actor makes before its counter is left alone
MaxProgress == 3

Health == {"Healthy", "FailureOrUnhealthy", "Success"}

\* An actor seen through its handle. state is its ActorState; progress and
\* protected are its Progress (the counter and the guards it counts);
\* last_seen is the counter at the previous health check, health what that
\* check reported. at is where its task is: "loop", "handler", or
\* "protect_future" while a handler waits inside protect_future. guards
\* counts the ProtectedZoneGuard values alive. checked records what was the
\* case at the last health check.
ActorHandle_new ==
    [state |-> "Idle", progress |-> 0, protected |-> 0, last_seen |-> 0,
     health |-> "None", at |-> "loop", guards |-> 0, advanced |-> FALSE,
     checked |-> [state |-> "Idle", guarded |-> FALSE, advanced |-> FALSE,
                  quiet |-> 0]]

\* Progress::record_progress
Progress_record_progress(h) ==
    [h EXCEPT !.progress = @ + 1, !.advanced = TRUE]

\* Progress::protect_zone: entering counts as progress, and the guard
\* keeps the actor counted as alive until it is dropped
Progress_protect_zone(h) ==
    [h EXCEPT !.progress = @ + 1, !.advanced = TRUE,
              !.protected = @ + 1, !.guards = @ + 1]

\* ProtectedZoneGuard dropped
ProtectedZoneGuard_drop(h) ==
    [h EXCEPT !.protected = @ - 1, !.guards = @ - 1]

\* ActorContext::record_progress
record_progress(h) == Progress_record_progress(h)

\* ActorContext::protect_zone
protect_zone(h) == Progress_protect_zone(h)

\* protect_future awaiting the future without holding a guard
protect_future_unguarded(h) == [h EXCEPT !.at = "protect_future"]

\* ActorContext::protect_future, up to the await of the future
protect_future(h) == [protect_zone(h) EXCEPT !.at = "protect_future"]

\* The helpers of ActorContext that wait on another actor's mailbox
Helpers == {"send_message", "ask", "ask_for_res", "send_exit_with_success",
            "schedule_self_msg"}

\* a helper that waits on the destination without a guard, as
\* send_self_message does
helper_suspended_unguarded(h, f) == [h EXCEPT !.at = "helper"]

\* The caller while helper f is suspended on the destination:
\* `let _guard = self.protect_zone()` comes first in send_message, ask,
\* ask_for_res and send_exit_with_success, and schedule_self_msg waits
\* inside self.send_message(&self.inner.scheduler_mailbox, ..)
helper_suspended(h, f) ==
    LET waits_in == IF f = "schedule_self_msg" THEN "send_message" ELSE f
    IN  IF waits_in \in {"send_message", "ask", "ask_for_res",
                         "send_exit_with_success"}
        THEN [protect_zone(h) EXCEPT !.at = "helper"]
        ELSE [h EXCEPT !.at = "helper"]

\* a helper whose guard is released only when it returns Ok
helper_returned_leak(h, f, at, result) ==
    IF result = "Ok" THEN [ProtectedZoneGuard_drop(h) EXCEPT !.at = at]
    ELSE [h EXCEPT !.at = at]

\* The helper returns to where it was called, with Ok or with an error:
\* _guard goes out of scope on either path
helper_returned(h, f, at, result) ==
    [ProtectedZoneGuard_drop(h) EXCEPT !.at = at]

\* ActorHandle::health
ActorHandle_health(h) ==
    IF h.state = "Success" THEN "Success"
    ELSE IF h.state = "Failure" THEN "FailureOrUnhealthy"
    ELSE IF h.state # "Paused" /\ h.protected = 0
            /\ h.progress = h.last_seen
         THEN "FailureOrUnhealthy"
    ELSE "Healthy"

\* ------------------------------------------------------------------- Init
InitActor(P) ==
    /\ actor_state \in {"Idle", "Processing"}
    /\ sleep_count = 0
    /\ dead = [s \in Switches |-> FALSE]
    /\ pc = "initialize"
    /\ cur = NoMsg
    /\ hi_queue = <<>>
    /\ lo_queue = <<>>
    /\ heap = <<>>
    /\ recv_timer = 0
    /\ exit_status = "None"
    /\ finalize_calls = 0
    /\ finalize_status = "None"
    /\ producers = P
    /\ sent = [p \in Producers |-> 0]
    /\ cmds_sent = 0
    /\ hi_sent = 0
    /\ handled = [p \in Producers |-> 0]
    /\ hi_handled = 0
    /\ sleep_left = [i \in 1..MaxSleeps |-> 0]
    /\ resumed = [i \in 1..MaxSleeps |-> FALSE]
    /\ ended_early = [i \in 1..MaxSleeps |-> FALSE]
    /\ fired = [i \in 1..MaxSleeps |-> 0]
    /\ since_kill = -1
    /\ after_kill = [all |-> 0, queued |-> 0, busy |-> FALSE,
                     sent |-> [p \in Producers |-> 0]]

InitWith(P) ==
    /\ InitActor(P)
    /\ pipeline = IndexingPipeline_new
    /\ handle = ActorHandle_new
    /\ call = NoCall
    /\ spawning = Spawning_new

\* since_kill and after_kill once a kill switch of the actor was killed
KillNoted ==
    IF since_kill >= 0
    THEN UNCHANGED <<since_kill, after_kill>>
    ELSE /\ since_kill' = 0
         /\ after_kill' = [all |-> 0, queued |-> 0,
                           busy |-> pc \in {"initialize", "handle"},
                           sent |-> sent]


\* schedule_self_msg that asks the scheduler for a timeout of zero
schedule_self_msg_at_once(h, after_duration, message) ==
    Append(h, [left |-> 0, msg |-> message])

\* ActorContext::schedule_self_msg: the scheduler's callbacks afterwards
schedule_self_msg(h, after_duration, message) ==
    Append(h, [left |-> after_duration, msg |-> message])

\* sleep that schedules the WakeUp without pausing the actor
sleep_without_pause(sleep_duration) ==
    /\ sleep_count' = sleep_count + 1
    /\ actor_state' = actor_state
    /\ heap' = schedule_self_msg(heap, sleep_duration,
                                 Item("WakeUp", sleep_count + 1, 0))

\* ActorContext::sleep
sleep(sleep_duration) ==
    /\ sleep_count' = sleep_count + 1
    /\ actor_state' = pause(actor_state)
    /\ heap' = schedule_self_msg(heap, sleep_duration,
                                 Item("WakeUp", sleep_count + 1, 0))

\* ------------------------------------------------------- the driver loop
histvars == <<sleep_left, resumed, ended_early, fired>>
envvars == <<producers, sent, cmds_sent>>

\* Initialize calling finalize on its error path, before the common exit
\* path calls it again
Initialize_finalize_twice(R) ==
    /\ pc = "initialize"
    /\ \E r \in R :
         IF r = "Ok"
         THEN pc' = "loop" /\ exit_status' = exit_status
              /\ UNCHANGED <<finalize_calls, finalize_status>>
         ELSE pc' = "break" /\ exit_status' = r
              /\ finalize_calls' = finalize_calls + 1
              /\ finalize_status' = r
    /\ UNCHANGED <<actor_state, sleep_count, dead, cur, hi_queue, lo_queue,
                   heap, recv_timer,
                   hi_sent, handled, hi_handled, since_kill, after_kill>>
    /\ UNCHANGED <<histvars, envvars>>
    /\ UNCHANGED aside_actor

\* initialize(); if err -> finalize(err)
Initialize(R) ==
    /\ pc = "initialize"
    /\ \E r \in R :
         IF r = "Ok"
         THEN pc' = "loop" /\ exit_status' = exit_status
         ELSE pc' = "break" /\ exit_status' = r
    /\ UNCHANGED <<actor_state, sleep_count, dead, cur, hi_queue, lo_queue,
                   heap, recv_timer, finalize_calls, finalize_status,
                   hi_sent, handled, hi_handled, since_kill, after_kill>>
    /\ UNCHANGED <<histvars, envvars>>
    /\ UNCHANGED aside_actor

\* loop: if kill_switch.killed -> break Killed; else pull with a timeout
LoopTop ==
    /\ pc = "loop"
    /\ IF dead["actor"]
       THEN pc' = "break" /\ exit_status' = "Killed" /\ recv_timer' = 0
       ELSE pc' = "recv" /\ exit_status' = exit_status
            /\ recv_timer' = HEARTBEAT
    /\ UNCHANGED <<actor_state, sleep_count, dead, cur, hi_queue, lo_queue,
                   heap, finalize_calls, finalize_status,
                   hi_sent, handled, hi_handled, since_kill, after_kill>>
    /\ UNCHANGED <<histvars, envvars>>
    /\ UNCHANGED aside_actor

\* The exit status a command breaks the loop with, "None" if it does not.
CommandExit(kind) ==
    CASE kind = "Kill" -> "Killed"
      [] kind = "Quit" -> "Quit"
      [] kind = "ExitWithSuccess" -> "Success"
      [] OTHER -> "None"

\* The actor state after a command that does not break the loop.
CommandState(kind, st) ==
    CASE kind = "Pause" -> pause(st)
      [] kind = "Resume" -> resume(st)
      [] OTHER -> st

IsMessage(m) == m.kind \in {"Msg", "WakeUp"}

\* The pull returns an item: a command is processed, a message is
\* dispatched to its handler.
Recv ==
    /\ pc = "recv"
    /\ LET q == Inbox_next(hi_queue, lo_queue, actor_state) IN
       /\ q # "none"
       /\ LET m == IF q = "hi" THEN Head(hi_queue) ELSE Head(lo_queue) IN
          /\ hi_queue' = IF q = "hi" THEN Tail(hi_queue) ELSE hi_queue
          /\ lo_queue' = IF q = "lo" THEN Tail(lo_queue) ELSE lo_queue
          /\ hi_handled' = IF q = "hi" THEN m.id ELSE hi_handled
          /\ handled' = IF m.kind = "Msg"
                        THEN [handled EXCEPT ![m.arg] = m.id] ELSE handled
          /\ IF IsMessage(m)
             THEN /\ actor_state' = process(actor_state)
                  /\ pc' = "handle"
                  /\ cur' = m
                  /\ exit_status' = exit_status
                  /\ after_kill' =
                       IF since_kill < 0 THEN after_kill
                       ELSE [after_kill EXCEPT
                               !.all = Min(@ + 1, 2),
                               !.queued =
                                 IF m.kind = "Msg"
                                    /\ m.id <= after_kill.sent[m.arg]
                                 THEN Min(@ + 1, 2) ELSE @]
                  /\ resumed' = resumed
                  /\ ended_early' = ended_early
             ELSE /\ actor_state' = CommandState(m.kind, actor_state)
                  /\ cur' = cur
                  /\ after_kill' = after_kill
                  /\ resumed' = IF m.kind = "Resume"
                                THEN [i \in 1..MaxSleeps |-> i <= sleep_count]
                                ELSE resumed
                  /\ ended_early' =
                       IF m.kind = "Resume" /\ actor_state = "Paused"
                          /\ sleep_count > 0 /\ sleep_left[sleep_count] > 0
                       THEN [ended_early EXCEPT ![sleep_count] = TRUE]
                       ELSE ended_early
                  /\ IF CommandExit(m.kind) = "None"
                     THEN pc' = "loop" /\ exit_status' = exit_status
                     ELSE pc' = "break" /\ exit_status' = CommandExit(m.kind)
    /\ recv_timer' = 0
    /\ UNCHANGED <<sleep_count, dead, heap, finalize_calls, finalize_status,
                   hi_sent, since_kill, sleep_left, fired>>
    /\ UNCHANGED envvars
    /\ UNCHANGED aside_actor

\* The pull finds the channel closed and empty: the actor exits with Success.
RecvDisconnected ==
    /\ pc = "recv"
    /\ Inbox_next(hi_queue, lo_queue, actor_state) = "none"
    /\ lo_queue = <<>>
    /\ Disconnected
    /\ pc' = "break"
    /\ exit_status' = "Success"
    /\ recv_timer' = 0
    /\ UNCHANGED <<actor_state, sleep_count, dead, cur, hi_queue, lo_queue,
                   heap, finalize_calls, finalize_status,
                   hi_sent, handled, hi_handled, since_kill, after_kill>>
    /\ UNCHANGED <<histvars, envvars>>
    /\ UNCHANGED aside_actor

\* The pull times out (idle tick): ctx.idle(); on_drained_messages
RecvTimeout ==
    /\ pc = "recv"
    /\ Inbox_next(hi_queue, lo_queue, actor_state) = "none"
    /\ recv_timer = 0
    /\ actor_state' = idle(actor_state)
    /\ pc' = "loop"
    /\ UNCHANGED <<sleep_count, dead, cur, hi_queue, lo_queue, heap,
                   recv_timer, exit_status, finalize_calls, finalize_status,
                   hi_sent, handled, hi_handled, since_kill, after_kill>>
    /\ UNCHANGED <<histvars, envvars>>
    /\ UNCHANGED aside_actor

\* A handler of a regular message calls ctx.sleep(d).
HandleSleep(D) ==
    /\ pc = "handle"
    /\ cur.kind = "Msg"
    /\ sleep_count < MaxSleeps
    /\ \E d \in D :
         /\ sleep(d)
         /\ sleep_left' = [sleep_left EXCEPT ![sleep_count + 1] = d]
    /\ resumed' = [resumed EXCEPT ![sleep_count + 1] = FALSE]
    /\ UNCHANGED <<ended_early, fired>>
    /\ UNCHANGED <<dead, pc, cur, hi_queue, lo_queue, recv_timer, exit_status,
                   finalize_calls, finalize_status, hi_sent, handled,
                   hi_handled, since_kill, after_kill>>
    /\ UNCHANGED envvars
    /\ UNCHANGED aside_actor

\* The handler of a regular message returns Ok or Err(exit status).
HandleReturn(R) ==
    /\ pc = "handle"
    /\ cur.kind = "Msg"
    /\ \E r \in R :
         IF r = "Ok"
         THEN pc' = "loop" /\ exit_status' = exit_status
         ELSE pc' = "break" /\ exit_status' = r
    /\ cur' = NoMsg
    /\ UNCHANGED <<actor_state, sleep_count, dead, hi_queue, lo_queue, heap,
                   recv_timer, finalize_calls, finalize_status,
                   hi_sent, handled, hi_handled, since_kill, after_kill>>
    /\ UNCHANGED <<histvars, envvars>>
    /\ UNCHANGED aside_actor

\* Handler<WakeUp>::handle runs and returns Ok.
HandleWakeUp ==
    /\ pc = "handle"
    /\ cur.kind = "WakeUp"
    /\ actor_state' = WakeUp_handle(actor_state, sleep_count, cur.arg)
    /\ pc' = "loop"
    /\ cur' = NoMsg
    /\ UNCHANGED <<sleep_count, dead, hi_queue, lo_queue, heap,
                   recv_timer, exit_status, finalize_calls, finalize_status,
                   hi_sent, handled, hi_handled, since_kill, after_kill>>
    /\ UNCHANGED <<histvars, envvars>>
    /\ UNCHANGED aside_actor

\* finalize(exit_status) is invoked.
Finalize ==
    /\ pc = "break"
    /\ finalize_calls' = finalize_calls + 1
    /\ finalize_status' = exit_status
    /\ pc' = "finalize"
    /\ UNCHANGED <<actor_state, sleep_count, dead, cur, hi_queue, lo_queue,
                   heap, recv_timer, exit_status,
                   hi_sent, handled, hi_handled, since_kill, after_kill>>
    /\ UNCHANGED <<histvars, envvars>>
    /\ UNCHANGED aside_actor

\* finalize has returned: ctx.exit(exit_status); the inbox is dropped.
Exit ==
    /\ pc = "finalize"
    /\ actor_state' = exit_state(actor_state, exit_status)
    /\ dead' = exit_switches(dead, exit_status)
    /\ IF dead'["actor"] THEN KillNoted
       ELSE UNCHANGED <<since_kill, after_kill>>
    /\ pc' = "done"
    /\ hi_queue' = <<>>
    /\ lo_queue' = <<>>
    /\ UNCHANGED <<sleep_count, cur, heap, recv_timer, exit_status,
                   finalize_calls, finalize_status,
                   hi_sent, handled, hi_handled>>
    /\ UNCHANGED <<histvars, envvars>>
    /\ UNCHANGED aside_actor

\* ------------------------------------------------------------ scheduler
\* A due callback fires: send_message_with_high_priority to the actor's own
\* mailbox; the error of a closed mailbox is ignored.
SchedulerFire ==
    /\ \E i \in 1..Len(heap) :
         /\ heap[i].left = 0
         /\ \A j \in 1..(i - 1) : heap[j].left > 0
         /\ heap' = [k \in 1..(Len(heap) - 1) |->
                        IF k < i THEN heap[k] ELSE heap[k + 1]]
         /\ IF pc = "done"
            THEN UNCHANGED <<hi_queue, hi_sent, fired>>
            ELSE /\ hi_queue' = Mailbox_send_message_with_high_priority(
                                  hi_queue,
                                  [heap[i].msg EXCEPT !.id = hi_sent + 1])
                 /\ hi_sent' = hi_sent + 1
                 /\ fired' = IF heap[i].msg.kind = "WakeUp"
                             THEN [fired EXCEPT ![heap[i].msg.arg] = @ + 1]
                             ELSE fired
    /\ UNCHANGED <<actor_state, sleep_count, dead, pc, cur, lo_queue,
                   recv_timer, exit_status, finalize_calls, finalize_status,
                   handled, hi_handled, since_kill, after_kill>>
    /\ UNCHANGED <<sleep_left, resumed, ended_early, envvars>>
    /\ UNCHANGED aside_actor

\* One second passes. The runtime's own steps take no time.
Tick ==
    /\ pc \notin {"loop", "break"}
    /\ pc = "recv" =>
         /\ Inbox_next(hi_queue, lo_queue, actor_state) = "none"
         /\ recv_timer > 0
         /\ ~(Disconnected /\ lo_queue = <<>>)
    /\ \A i \in 1..Len(heap) : heap[i].left > 0
    /\ recv_timer' = IF pc = "recv" THEN recv_timer - 1 ELSE recv_timer
    /\ heap' = [i \in 1..Len(heap) |-> [heap[i] EXCEPT !.left = @ - 1]]
    /\ sleep_left' = [i \in 1..MaxSleeps |->
                        IF sleep_left[i] > 0 THEN sleep_left[i] - 1 ELSE 0]
    /\ since_kill' = IF since_kill >= 0 /\ since_kill <= HEARTBEAT
                     THEN since_kill + 1 ELSE since_kill
    /\ UNCHANGED <<actor_state, sleep_count, dead, pc, cur, hi_queue,
                   lo_queue, exit_status, finalize_calls, finalize_status,
                   hi_sent, handled, hi_handled, after_kill, resumed,
                   ended_early, fired>>
    /\ UNCHANGED envvars
    /\ UNCHANGED aside_actor

\* ---------------------------------------------------------- environment
\* A producer posts a regular message (Mailbox::send_message).
SendMessage(max) ==
    /\ pc # "done"
    /\ \E p \in producers :
         /\ sent[p] < max
         /\ lo_queue' = send_message(lo_queue, Item("Msg", p, sent[p] + 1))
         /\ sent' = [sent EXCEPT ![p] = @ + 1]
    /\ UNCHANGED <<actor_state, sleep_count, dead, pc, cur, hi_queue, heap,
                   recv_timer, exit_status, finalize_calls, finalize_status,
                   producers, cmds_sent, hi_sent, handled, hi_handled,
                   since_kill, after_kill>>
    /\ UNCHANGED histvars
    /\ UNCHANGED aside_actor

\* send_exit_with_success that sends the command as the handle sends its
\* commands, with high priority
send_exit_with_success_high_priority(queues, p) ==
    [queues EXCEPT !.hi = Mailbox_send_message_with_high_priority(
                              @, Item("ExitWithSuccess", p, 0))]

\* ActorContext::send_exit_with_success:
\* mailbox.send_message(Command::ExitWithSuccess), on the queues hi and lo
\* of the destination
send_exit_with_success(queues, p) ==
    [queues EXCEPT !.lo = Mailbox_send_message(
                              @, Item("ExitWithSuccess", p, 0))]

\* ActorContext::send_exit_with_success by a producer
SendExitWithSuccess(max) ==
    /\ pc # "done"
    /\ cmds_sent < max
    /\ \E p \in producers :
         LET queues == send_exit_with_success(
                           [hi |-> hi_queue, lo |-> lo_queue], p)
         IN  hi_queue' = queues.hi /\ lo_queue' = queues.lo
    /\ cmds_sent' = cmds_sent + 1
    /\ UNCHANGED <<actor_state, sleep_count, dead, pc, cur, heap,
                   recv_timer, exit_status, finalize_calls, finalize_status,
                   producers, sent, hi_sent, handled, hi_handled,
                   since_kill, after_kill>>
    /\ UNCHANGED histvars
    /\ UNCHANGED aside_actor

\* A command sent through the actor handle, on the high-priority queue.
SendCommand(C, max) ==
    /\ pc # "done"
    /\ cmds_sent < max
    /\ \E c \in C :
         hi_queue' = Mailbox_send_message_with_high_priority(
                         hi_queue, Item(c, 0, hi_sent + 1))
    /\ hi_sent' = hi_sent + 1
    /\ cmds_sent' = cmds_sent + 1
    /\ UNCHANGED <<actor_state, sleep_count, dead, pc, cur, lo_queue, heap,
                   recv_timer, exit_status, finalize_calls, finalize_status,
                   producers, sent, handled, hi_handled,
                   since_kill, after_kill>>
    /\ UNCHANGED histvars
    /\ UNCHANGED aside_actor

\* A producer drops its mailbox handle.
DropMailbox ==
    /\ \E p \in producers : producers' = producers \ {p}
    /\ UNCHANGED <<actor_state, sleep_count, dead, pc, cur, hi_queue,
                   lo_queue, heap, recv_timer, exit_status, finalize_calls,
                   finalize_status, sent, cmds_sent, hi_sent, handled,
                   hi_handled, since_kill, after_kill>>
    /\ UNCHANGED histvars
    /\ UNCHANGED aside_actor

\* Someone kills the actor's kill switch or one of those above it.
KillSwitchKilled(S) ==
    /\ \E s \in S :
         /\ ~dead[s]
         /\ dead' = KillSwitch_kill(dead, s)
    /\ KillNoted
    /\ UNCHANGED <<actor_state, sleep_count, pc, cur, hi_queue, lo_queue,
                   heap, recv_timer, exit_status, finalize_calls,
                   finalize_status, hi_sent, handled, hi_handled>>
    /\ UNCHANGED <<histvars, envvars>>
    /\ UNCHANGED aside_actor

Outcomes == {"Ok"} \cup ActorExitStatus

\* ---------------------------------------------------------------- Spec
\* The life of an actor: every way it can stop.
Init == InitWith({1})

Next ==
    \/ Initialize(Outcomes)
    \/ LoopTop
    \/ Recv
    \/ RecvDisconnected
    \/ RecvTimeout
    \/ HandleReturn(Outcomes)
    \/ Finalize
    \/ Exit
    \/ Tick
    \/ SendMessage(MaxSend)
    \/ SendExitWithSuccess(MaxCmds)
    \/ SendCommand({"Quit", "Kill", "Pause"}, MaxCmds)
    \/ DropMailbox
    \/ KillSwitchKilled({"supervisor", "actor"})

Spec == Init /\ [][Next]_vars

\* ------------------------------------------------------------- SpecFifo
\* Two producers and the actor handle send to one mailbox.
InitFifo == InitWith(Producers)

NextFifo ==
    \/ Initialize({"Ok"})
    \/ LoopTop
    \/ Recv
    \/ RecvTimeout
    \/ HandleReturn({"Ok", "Failure"})
    \/ Finalize
    \/ Exit
    \/ Tick
    \/ SendMessage(MaxSend)
    \/ SendCommand({"Pause", "Resume", "Observe", "Quit"}, MaxCmds)

SpecFifo == InitFifo /\ [][NextFifo]_vars

\* ------------------------------------------------------------- SpecKill
\* An actor at work while the kill switches above it are killed.
InitKill == InitWith({1})

NextKill ==
    \/ Initialize({"Ok"})
    \/ LoopTop
    \/ Recv
    \/ RecvTimeout
    \/ HandleReturn({"Ok", "Failure"})
    \/ Finalize
    \/ Exit
    \/ Tick
    \/ SendMessage(MaxSend)
    \/ SendCommand({"Pause", "Resume"}, MaxCmds)
    \/ KillSwitchKilled(Switches)

SpecKill == InitKill /\ [][NextKill]_vars

\* ------------------------------------------------------------ SpecSleep
\* An actor whose handlers call sleep, with commands sent meanwhile.
InitSleep == InitWith({1})

NextSleep ==
    \/ Initialize({"Ok"})
    \/ LoopTop
    \/ Recv
    \/ RecvTimeout
    \/ HandleSleep(1..MaxSleepDuration)
    \/ HandleReturn({"Ok"})
    \/ HandleWakeUp
    \/ Finalize
    \/ Exit
    \/ SchedulerFire
    \/ Tick
    \/ SendMessage(MaxSend)
    \/ SendExitWithSuccess(MaxCmds)
    \/ SendCommand({"Pause", "Resume", "Quit"}, MaxCmds)

SpecSleep == InitSleep /\ [][NextSleep]_vars

\* ------------------------------------------------------------ SpecState
\* The state operations of ActorContext applied in any order, also after the
\* actor has exited. cur records the last call, sleep_count counts the calls.
MaxCalls == 4

InitState ==
    /\ InitWith({})
    /\ pc = "initialize"

StateFrame ==
    UNCHANGED <<pc, hi_queue, lo_queue, heap, recv_timer, exit_status,
                finalize_calls, finalize_status, producers, sent, cmds_sent,
                hi_sent, handled, hi_handled, sleep_left, resumed,
                ended_early, fired, since_kill, after_kill>>

CallStateOp ==
    /\ sleep_count < MaxCalls
    /\ \E op \in {"process", "idle", "pause", "resume"} :
         /\ actor_state' = CASE op = "process" -> process(actor_state)
                              [] op = "idle" -> idle(actor_state)
                              [] op = "pause" -> pause(actor_state)
                              [] op = "resume" -> resume(actor_state)
         /\ cur' = Item(op, 0, 0)
    /\ sleep_count' = sleep_count + 1
    /\ dead' = dead
    /\ StateFrame
    /\ UNCHANGED aside_actor

CallExit ==
    /\ sleep_count < MaxCalls
    /\ \E exit \in ActorExitStatus :
         /\ actor_state' = exit_state(actor_state, exit)
         /\ dead' = exit_switches(dead, exit)
         /\ cur' = Item(exit, 0, 0)
    /\ sleep_count' = sleep_count + 1
    /\ StateFrame
    /\ UNCHANGED aside_actor

NextState == CallStateOp \/ CallExit

SpecState == InitState /\ [][NextState]_vars

\* --------------------------------------------------------- SpecPipeline
\* An IndexingPipeline supervising its eight children. A handler takes the
\* pipeline p and gives back the pipeline afterwards and what it returned.
\* The order in which outstanding self-messages arrive is left open.
Returned(p, res) == [p |-> p, res |-> res]

\* ctx.schedule_self_msg as the pipeline's handlers use it
schedule(p, after_duration, kind, retry_count) ==
    [p EXCEPT !.scheduled = @ (+) SetToBag({[kind |-> kind,
                                             retry_count |-> retry_count,
                                             after |-> after_duration]})]

supervisables(p) == IF p.handles THEN Children ELSE {}

\* healthcheck that looks for running actors before it looks for failures
healthcheck_success_first(p) ==
    LET health(c) == Supervisable_health(p.children[c])
        healthy_actors == {c \in supervisables(p) : health(c) = "Healthy"}
        failure_or_unhealthy_actors ==
            {c \in supervisables(p) : health(c) = "FailureOrUnhealthy"}
    IN  IF healthy_actors # {} THEN "Healthy"
        ELSE IF failure_or_unhealthy_actors # {} THEN "FailureOrUnhealthy"
        ELSE "Success"

healthcheck(p) ==
    LET health(c) == Supervisable_health(p.children[c])
        healthy_actors == {c \in supervisables(p) : health(c) = "Healthy"}
        failure_or_unhealthy_actors ==
            {c \in supervisables(p) : health(c) = "FailureOrUnhealthy"}
    IN  IF failure_or_unhealthy_actors # {} THEN "FailureOrUnhealthy"
        ELSE IF healthy_actors = {} THEN "Success"
        ELSE "Healthy"

\* spawn_pipeline keeping the supervisor's own switch for the children
IndexingPipeline_kill_switch_shared(attempt) == "supervisor"

\* spawn_pipeline that derives the switch once and keeps it for the
\* attempts that follow
IndexingPipeline_kill_switch_first(attempt) == AttemptSwitch[1]

\* spawn_pipeline: self.kill_switch = ctx.kill_switch().child(), a switch
\* of its own for every attempt
IndexingPipeline_kill_switch(attempt) == AttemptSwitch[attempt]

\* outcome: "Ok", or the error of the metastore or of load_source.
\* attempts is the history of the outcomes, which the code does not keep.
spawn_pipeline(p, outcome) ==
    LET attempt == p.statistics.num_spawn_attempts + 1
        p1 == [p EXCEPT !.statistics.num_spawn_attempts = attempt,
                        !.kill_switch = IndexingPipeline_kill_switch(attempt),
                        !.attempts = Append(@, outcome)]
    IN  IF outcome # "Ok" THEN Returned(p1, outcome)
        ELSE Returned(
               [p1 EXCEPT !.previous_generations_statistics = p1.statistics,
                          !.statistics.generation = @ + 1,
                          !.children = [c \in Children |-> "Running"],
                          !.child_events = 0,
                          !.handles = TRUE],
               "Ok")

\* terminate: the switch is killed, the handles are taken, and the kill()
\* of five of them is awaited: those actors have ended when it returns.
\* The actors behind the other three handles end when they next look at
\* the switch; until then they are among the released.
terminate(p) ==
    LET p1 == [p EXCEPT !.dead = KillSwitch_kill(@, p.kill_switch)]
        alive == {c \in Children : p.children[c] \in {"Running", "Stalled"}}
    IN  IF p1.handles
        THEN [p1 EXCEPT !.handles = FALSE,
                        !.released = @ \cup (alive \ KilledByTerminate),
                        !.children = [c \in Children |-> "Absent"]]
        ELSE p1

\* Observe that schedules its successor only while handles are held
Observe_handle_while_handles(p) ==
    LET p1 == IF p.handles
              THEN [p EXCEPT !.statistics =
                      [p.previous_generations_statistics EXCEPT
                         !.generation = p.statistics.generation,
                         !.num_spawn_attempts =
                             p.statistics.num_spawn_attempts]]
              ELSE p
    IN  IF p.handles THEN Returned(schedule(p1, 1, "Observe", 0), "Ok")
        ELSE Returned(p1, "Ok")

\* Observe that takes the whole statistics from the previous generations
Observe_handle_previous_only(p) ==
    LET p1 == IF p.handles
              THEN [p EXCEPT !.statistics = p.previous_generations_statistics]
              ELSE p
    IN  Returned(schedule(p1, 1, "Observe", 0), "Ok")

\* Handler<Observe>::handle
Observe_handle(p) ==
    LET p1 == IF p.handles
              THEN [p EXCEPT !.statistics =
                      [p.previous_generations_statistics EXCEPT
                         !.generation = p.statistics.generation,
                         !.num_spawn_attempts =
                             p.statistics.num_spawn_attempts]]
              ELSE p
    IN  Returned(schedule(p1, 1, "Observe", 0), "Ok")

\* Supervise that terminates a failed pipeline and schedules no Spawn
Supervise_handle_no_respawn(p) ==
    LET health == healthcheck(p)
        p1 == IF p.handles /\ health = "FailureOrUnhealthy"
              THEN terminate(p)
              ELSE p
    IN  IF p.handles /\ health = "Success" THEN Returned(p, "Success")
        ELSE Returned(schedule(p1, HEARTBEAT, "Supervise", 0), "Ok")

\* Handler<Supervise>::handle
Supervise_handle(p) ==
    LET health == healthcheck(p)
        p1 == IF p.handles /\ health = "FailureOrUnhealthy"
              THEN schedule(terminate(p), HEARTBEAT, "Spawn", 0)
              ELSE p
    IN  IF p.handles /\ health = "Success" THEN Returned(p, "Success")
        ELSE Returned(schedule(p1, HEARTBEAT, "Supervise", 0), "Ok")

\* Spawn that spawns a generation whether or not handles are held
Spawn_handle_unguarded(p, spawn, outcome) ==
    LET p1 == [p EXCEPT !.previous_generations_statistics
                            .num_spawn_attempts = 1 + spawn.retry_count]
        spawned == spawn_pipeline(p1, outcome)
    IN  CASE spawned.res = "Ok" -> spawned
          [] spawned.res = "IndexDoesNotExist" ->
               Returned(spawned.p, "Success")
          [] OTHER ->
               Returned(schedule(spawned.p,
                                 wait_duration_before_retry(
                                     usize(spawn.retry_count),
                                     FALSE).secs,
                                 "Spawn", spawn.retry_count + 1),
                        "Ok")

\* Spawn that retries with the retry count it was given
Spawn_handle_same_count(p, spawn, outcome) ==
    IF p.handles THEN Returned(p, "Ok")
    ELSE
      LET p1 == [p EXCEPT !.previous_generations_statistics
                              .num_spawn_attempts = 1 + spawn.retry_count]
          spawned == spawn_pipeline(p1, outcome)
      IN  CASE spawned.res = "Ok" -> spawned
            [] spawned.res = "IndexDoesNotExist" ->
                 Returned(spawned.p, "Success")
            [] OTHER ->
                 Returned(schedule(spawned.p,
                                   wait_duration_before_retry(
                                       usize(spawn.retry_count),
                                       FALSE).secs,
                                   "Spawn", spawn.retry_count),
                          "Ok")

\* Spawn that retries after every error
Spawn_handle_retry_all(p, spawn, outcome) ==
    IF p.handles THEN Returned(p, "Ok")
    ELSE
      LET p1 == [p EXCEPT !.previous_generations_statistics
                              .num_spawn_attempts = 1 + spawn.retry_count]
          spawned == spawn_pipeline(p1, outcome)
      IN  IF spawned.res = "Ok" THEN spawned
          ELSE Returned(schedule(spawned.p,
                                 wait_duration_before_retry(
                                     usize(spawn.retry_count),
                                     FALSE).secs,
                                 "Spawn", spawn.retry_count + 1),
                        "Ok")

\* Handler<Spawn>::handle. The retry count of a Spawn stays far below the
\* width of a u32, where builds with and without overflow checks agree.
Spawn_handle(p, spawn, outcome) ==
    IF p.handles THEN Returned(p, "Ok")
    ELSE
      LET p1 == [p EXCEPT !.previous_generations_statistics
                              .num_spawn_attempts = 1 + spawn.retry_count]
          spawned == spawn_pipeline(p1, outcome)
      IN  CASE spawned.res = "Ok" -> spawned
            [] spawned.res = "IndexDoesNotExist" ->
                 Returned(spawned.p, "Success")
            [] OTHER ->
                 Returned(schedule(spawned.p,
                                   wait_duration_before_retry(
                                       usize(spawn.retry_count),
                                       FALSE).secs,
                                   "Spawn", spawn.retry_count + 1),
                          "Ok")

\* initialize that handles Observe and Supervise whatever Spawn returned
IndexingPipeline_initialize_all(p, outcome) ==
    LET r1 == Spawn_handle(p, [kind |-> "Spawn", retry_count |-> 0,
                               after |-> 0], outcome)
        r2 == Observe_handle(r1.p)
        r3 == Supervise_handle(r2.p)
    IN  IF r1.res # "Ok" THEN Returned(r3.p, r1.res)
        ELSE IF r2.res # "Ok" THEN Returned(r3.p, r2.res)
        ELSE r3

\* Actor::initialize of IndexingPipeline
IndexingPipeline_initialize(p, outcome) ==
    LET r1 == Spawn_handle(p, [kind |-> "Spawn", retry_count |-> 0,
                               after |-> 0], outcome)
        r2 == Observe_handle(r1.p)
        r3 == Supervise_handle(r2.p)
    IN  IF r1.res # "Ok" THEN r1
        ELSE IF r2.res # "Ok" THEN r2
        ELSE r3

\* The loop takes the handler's result: Err(status) ends the actor
PipelineReturn(r) ==
    IF r.res = "Ok" THEN [r.p EXCEPT !.status = "running"]
    ELSE [r.p EXCEPT
            !.status = "exited",
            !.exit_status = r.res,
            !.dead = IF should_activate_kill_switch(r.res)
                     THEN KillSwitch_kill(@, "supervisor") ELSE @]

SpawnOutcomes == {"Ok", "Error", "IndexDoesNotExist"}

PipelineInitialize(O) ==
    /\ pipeline.status = "initialize"
    /\ \E outcome \in O :
         pipeline' = PipelineReturn(IndexingPipeline_initialize(pipeline,
                                                                outcome))
    /\ UNCHANGED aside_pipeline

\* The loop hands one of the outstanding self-messages, of a kind in K, to
\* its handler
PipelineHandles(K, O) ==
    /\ pipeline.status = "running"
    /\ ~pipeline.dead["supervisor"]
    /\ \E m \in BagToSet(pipeline.scheduled), outcome \in O :
         LET p == [pipeline EXCEPT !.scheduled = @ (-) SetToBag({m})]
         IN  /\ m.kind \in K
             /\ (m.kind = "Spawn" /\ ~p.handles) =>
                    p.statistics.num_spawn_attempts < MaxAttempts
             /\ pipeline' = PipelineReturn(
                    CASE m.kind = "Spawn" -> Spawn_handle(p, m, outcome)
                      [] m.kind = "Observe" -> Observe_handle(p)
                      [] m.kind = "Supervise" -> Supervise_handle(p))
    /\ UNCHANGED aside_pipeline

PipelineHandle(O) == PipelineHandles({"Spawn", "Observe", "Supervise"}, O)

\* The supervisor finds its own kill switch dead
PipelineKilled ==
    /\ pipeline.status = "running"
    /\ pipeline.dead["supervisor"]
    /\ pipeline' = [pipeline EXCEPT !.status = "exited",
                                    !.exit_status = "Killed"]
    /\ UNCHANGED aside_pipeline

\* A child leaves its loop by itself, with Success or with a failure
ChildExits(S) ==
    /\ pipeline.status = "running"
    /\ pipeline.handles
    /\ pipeline.child_events < MaxChildEvents
    /\ \E c \in Children, exit \in S :
         /\ pipeline.children[c] \in {"Running", "Stalled"}
         /\ pipeline' =
              [pipeline EXCEPT
                 !.children[c] = exit_state("Processing", exit),
                 !.child_events = @ + 1,
                 !.dead = IF should_activate_kill_switch(exit)
                          THEN KillSwitch_kill(@, pipeline.kill_switch)
                          ELSE @]
    /\ UNCHANGED aside_pipeline

\* The work is done: the first child that still runs, all those before it
\* having finished with Success, finishes with Success
ChildFinishes ==
    /\ pipeline.status = "running"
    /\ pipeline.handles
    /\ \E i \in DOMAIN PipelineOrder :
         /\ \A j \in 1..(i - 1) :
               pipeline.children[PipelineOrder[j]] = "Success"
         /\ pipeline.children[PipelineOrder[i]] = "Running"
         /\ pipeline' = [pipeline EXCEPT
                           !.children[PipelineOrder[i]] =
                               exit_state("Processing", "Success")]
    /\ UNCHANGED aside_pipeline

\* A child stops making progress
ChildStalls ==
    /\ pipeline.status = "running"
    /\ pipeline.handles
    /\ pipeline.child_events < MaxChildEvents
    /\ \E c \in Children :
         /\ pipeline.children[c] = "Running"
         /\ pipeline' = [pipeline EXCEPT !.children[c] = "Stalled",
                                         !.child_events = @ + 1]
    /\ UNCHANGED aside_pipeline

\* A child finds its kill switch dead
ChildKilled ==
    /\ pipeline.status = "running"
    /\ pipeline.handles
    /\ pipeline.dead[pipeline.kill_switch]
    /\ \E c \in Children :
         /\ pipeline.children[c] = "Running"
         /\ pipeline' = [pipeline EXCEPT
                           !.children[c] = exit_state("Processing", "Killed")]
    /\ UNCHANGED aside_pipeline

\* An actor of a terminated generation finds its kill switch dead and ends
ReleasedChildKilled ==
    /\ pipeline.status = "running"
    /\ \E c \in pipeline.released :
         pipeline' = [pipeline EXCEPT !.released = @ \ {c}]
    /\ UNCHANGED aside_pipeline

\* Someone kills the switch the supervisor's own switch was derived from
UniverseKilled ==
    /\ pipeline.status # "exited"
    /\ ~pipeline.dead["universe"]
    /\ pipeline' = [pipeline EXCEPT !.dead = KillSwitch_kill(@, "universe")]
    /\ UNCHANGED aside_pipeline

InitPipeline ==
    /\ InitWith({})
    /\ actor_state = "Idle"

NextPipeline ==
    \/ PipelineInitialize(SpawnOutcomes)
    \/ PipelineHandle(SpawnOutcomes)
    \/ PipelineKilled
    \/ ChildExits({"Failure"})
    \/ ChildFinishes
    \/ ChildStalls
    \/ ChildKilled
    \/ ReleasedChildKilled
    \/ UniverseKilled

SpecPipeline == InitPipeline /\ [][NextPipeline]_vars

\* --------------------------------------------------------- SpecSpawnMsg
\* The pipeline and a holder of its mailbox that sends it Spawn::default()
\* (Spawn is a public message), also while the pipeline holds handles.
\* call keeps how many it has sent.

SpawnsSent == IF call.fn = "send_message" THEN call.arg ELSE 0

SpawnSent ==
    /\ pipeline.status = "running"
    /\ SpawnsSent < MaxSend
    /\ pipeline' =
          [pipeline EXCEPT !.scheduled =
              @ (+) SetToBag({[kind |-> "Spawn", retry_count |-> 0,
                               after |-> 0]})]
    /\ call' = [fn |-> "send_message", arg |-> SpawnsSent + 1, ret |-> "Ok"]
    /\ UNCHANGED <<actorvars, handle, spawning>>

NextSpawnMsg ==
    \/ PipelineInitialize(SpawnOutcomes)
    \/ PipelineHandle(SpawnOutcomes)
    \/ ChildExits({"Failure"})
    \/ SpawnSent

SpecSpawnMsg == InitPipeline /\ [][NextSpawnMsg]_vars

\* ----------------------------------------------------------- SpecHealth
\* One actor at work and its supervisor asking its handle for its health at
\* every heartbeat. Time is counted in health checks.

\* The loop dispatches a message: progress is recorded, the handler starts
Dispatch ==
    /\ handle.at = "loop"
    /\ handle.state \in {"Idle", "Processing"}
    /\ handle.progress < MaxProgress
    /\ handle' = record_progress([handle EXCEPT !.state = process(@),
                                                !.at = "handler"])
    /\ UNCHANGED aside_handle

HandlerRecordsProgress ==
    /\ handle.at = "handler"
    /\ handle.progress < MaxProgress
    /\ handle' = record_progress(handle)
    /\ UNCHANGED aside_handle

HandlerProtectFuture ==
    /\ handle.at = "handler"
    /\ handle.progress < MaxProgress
    /\ handle' = protect_future(handle)
    /\ UNCHANGED aside_handle

\* The awaited future completes: protect_future returns and its guard, if
\* one is held, is dropped
FutureReturns ==
    /\ handle.at = "protect_future"
    /\ handle' = [(IF handle.guards > 0 THEN ProtectedZoneGuard_drop(handle)
                   ELSE handle) EXCEPT !.at = "handler"]
    /\ UNCHANGED aside_handle

HandlerReturnsTo(R) ==
    /\ handle.at = "handler"
    /\ \E r \in R :
         handle' = IF r = "Ok" THEN [handle EXCEPT !.at = "loop"]
                   ELSE [handle EXCEPT !.at = "done",
                                       !.state = exit_state(@, r)]
    /\ UNCHANGED aside_handle

\* The loop, between two messages, goes idle or obeys Pause and Resume
LoopChangesState ==
    /\ handle.at = "loop"
    /\ \E st \in {idle(handle.state), pause(handle.state),
                  resume(handle.state)} :
         /\ st # handle.state
         /\ handle' = [handle EXCEPT !.state = st]
    /\ UNCHANGED aside_handle

\* The supervisor's heartbeat: ActorHandle::health, which also notes the
\* counter for the next check
HealthCheck ==
    /\ LET guarded == handle.at = "protect_future"
           quiet == guarded /\ ~handle.advanced
       IN  handle' =
             [handle EXCEPT
                !.health = ActorHandle_health(handle),
                !.last_seen = handle.progress,
                !.advanced = FALSE,
                !.checked = [state |-> handle.state,
                             guarded |-> guarded,
                             advanced |-> handle.advanced,
                             quiet |-> IF quiet THEN Min(@.quiet + 1, 2)
                                       ELSE 0]]
    /\ UNCHANGED aside_handle

InitHealth ==
    /\ InitWith({})
    /\ actor_state = "Idle"

NextHealth ==
    \/ Dispatch
    \/ HandlerRecordsProgress
    \/ HandlerProtectFuture
    \/ FutureReturns
    \/ HandlerReturnsTo({"Ok", "Success", "Failure"})
    \/ LoopChangesState
    \/ HealthCheck

SpecHealth == InitHealth /\ [][NextHealth]_vars

\* ---------------------------------------------------------- SpecHelpers
\* One actor whose handlers call the helpers of ActorContext, directly or
\* as the future of protect_future, and its supervisor's health checks.
\* call keeps the helper in progress, the guards alive and the place of the
\* task when it was called, and its result.

HelperCalled ==
    /\ handle.at \in {"handler", "protect_future"}
    /\ handle.progress < MaxProgress
    /\ \E f \in Helpers :
         /\ handle' = helper_suspended(handle, f)
         /\ call' = [fn |-> f,
                     arg |-> [guards |-> handle.guards, at |-> handle.at],
                     ret |-> "suspended"]
    /\ UNCHANGED <<actorvars, pipeline, spawning>>

HelperReturns ==
    /\ handle.at = "helper"
    /\ \E result \in {"Ok", "Err"} :
         /\ handle' = helper_returned(handle, call.fn, call.arg.at, result)
         /\ call' = [call EXCEPT !.ret = result]
    /\ UNCHANGED <<actorvars, pipeline, spawning>>

InitHelpers ==
    /\ InitWith({})
    /\ actor_state = "Idle"

NextHelpers ==
    \/ Dispatch
    \/ HandlerProtectFuture
    \/ FutureReturns
    \/ HelperCalled
    \/ HelperReturns
    \/ HandlerReturnsTo({"Ok", "Failure"})
    \/ HealthCheck

SpecHelpers == InitHelpers /\ [][NextHelpers]_vars

\* ---------------------------------------------------------- SpecRestart
\* The pipeline with a supervisor nobody kills and spawn attempts that stop
\* failing: the last attempt the bound allows succeeds, and none finds the
\* index gone. The scheduler fires every message it holds and the loop
\* handles it: a Spawn that stays outstanding is handled.
StopFailing ==
    IF pipeline.statistics.num_spawn_attempts + 1 < MaxAttempts
    THEN {"Ok", "Error"} ELSE {"Ok"}

PipelineRespawn == PipelineHandles({"Spawn"}, StopFailing)

NextRestart ==
    \/ PipelineInitialize(StopFailing)
    \/ PipelineHandles({"Observe", "Supervise"}, {"Ok"})
    \/ PipelineRespawn
    \/ ChildExits({"Failure"})
    \/ ChildStalls
    \/ ChildKilled
    \/ ReleasedChildKilled

SpecRestart ==
    InitPipeline /\ [][NextRestart]_vars /\ WF_vars(PipelineRespawn)

\* ------------------------------------------------------------ SpecRetry
\* The pipeline with a supervisor nobody kills, spawn attempts that fail
\* with a retryable error or succeed, and children that do their work and
\* finish, or fail. A Supervise that is outstanding is eventually handled.

Retryable == {"Ok", "Error"}

PipelineSupervise == PipelineHandles({"Supervise"}, {"Ok"})

NextRetry ==
    \/ PipelineInitialize(Retryable)
    \/ PipelineHandles({"Spawn", "Observe"}, Retryable)
    \/ PipelineSupervise
    \/ ChildExits({"Failure"})
    \/ ChildFinishes
    \/ ReleasedChildKilled

SpecRetry ==
    InitPipeline /\ [][NextRetry]_vars /\ WF_vars(PipelineSupervise)

\* ---------------------------------------------------------- SpecBackoff
\* wait_duration_before_retry called with retry counts from the whole
\* range of usize: the small ones, those around the limits of the limbs,
\* and those beyond the width of a u32; in a build with overflow checks and
\* in one without.

MaxRetryCount == 12

RetryCounts ==
    {<<w3, w2, w1, w0>> :
        w3 \in {0, U16 - 1}, w2 \in {0, 1}, w1 \in {0, 1, U16 - 1},
        w0 \in 0..MaxRetryCount \cup {U16 - 2, U16 - 1}}

InitBackoff ==
    /\ InitWith({})
    /\ actor_state = "Idle"

CallWaitDuration ==
    /\ \E retry_count \in RetryCounts, overflow_checks \in BOOLEAN :
         call' = [fn |-> "wait_duration_before_retry",
                  arg |-> retry_count,
                  ret |-> wait_duration_before_retry(retry_count,
                                                     overflow_checks)]
    /\ UNCHANGED aside_call

NextBackoff == CallWaitDuration

SpecBackoff == InitBackoff /\ [][NextBackoff]_vars

\* ---------------------------------------------------------- SpecRetries
\* The pipeline with spawn attempts that fail many times in a row, succeed,
\* or find the index gone; a child of a spawned generation may fail, and
\* Supervise then starts the retries again.

\* The switches of a pipeline that makes up to MaxRetryCount + 2 attempts
RetrySwitches ==
    {"universe", "supervisor", "default"}
        \cup {AttemptSwitch[i] : i \in 1..(MaxRetryCount + 2)}

InitRetries ==
    /\ InitActor({})
    /\ actor_state = "Idle"
    /\ pipeline = [IndexingPipeline_new EXCEPT
                     !.dead = [s \in RetrySwitches |-> FALSE]]
    /\ handle = ActorHandle_new
    /\ call = NoCall
    /\ spawning = Spawning_new

\* The loop hands an outstanding Spawn to its handler
PipelineRetries ==
    /\ pipeline.status = "running"
    /\ ~pipeline.dead["supervisor"]
    /\ \E m \in BagToSet(pipeline.scheduled), outcome \in SpawnOutcomes :
         LET p == [pipeline EXCEPT !.scheduled = @ (-) SetToBag({m})]
         IN  /\ m.kind = "Spawn"
             /\ p.statistics.num_spawn_attempts <= MaxRetryCount
             /\ outcome = "Ok" => p.statistics.generation < MaxAttempts
             /\ pipeline' = PipelineReturn(Spawn_handle(p, m, outcome))
    /\ UNCHANGED aside_pipeline

NextRetries ==
    \/ PipelineInitialize(SpawnOutcomes)
    \/ PipelineRetries
    \/ PipelineHandles({"Observe", "Supervise"}, {"Ok"})
    \/ ChildExits({"Failure"})

SpecRetries == InitRetries /\ [][NextRetries]_vars

\* ------------------------------------------------------------ SpecSpawn
\* The pipelines of the process call spawn_pipeline, each when it likes, in
\* initialize or in a later Spawn.

SpawnCalled ==
    /\ \E i \in Pipelines :
         /\ spawning.at[i] = "outside"
         /\ spawning' = [spawning EXCEPT !.at[i] = "waiting"]
    /\ UNCHANGED aside_spawning

\* acquire() completes when the semaphore has a permit
SpawnAcquires ==
    /\ \E i \in Pipelines :
         /\ spawning.at[i] = "waiting"
         /\ spawning.permits > 0
         /\ spawning' = acquire(spawning, i)
    /\ UNCHANGED aside_spawning

SpawnReturns ==
    /\ \E i \in Pipelines :
         /\ spawning.at[i] = "inside"
         /\ spawning' = leave(spawning, i)
    /\ UNCHANGED aside_spawning

InitSpawn ==
    /\ InitWith({})
    /\ actor_state = "Idle"

NextSpawn == SpawnCalled \/ SpawnAcquires \/ SpawnReturns

SpecSpawn == InitSpawn /\ [][NextSpawn]_vars

\* ----------------------------------------------------------- SpecPermits
\* One pipeline more than the semaphore has permits call spawn_pipeline,
\* each when it likes, and the other pipelines of the process make no
\* attempt; an attempt returns Ok or an error. Every attempt in progress
\* returns, and the semaphore, which gives its permits in the order they
\* were asked for, does not pass over the last pipeline for ever.

Contenders == 1..(SPAWN_PIPELINE_SEMAPHORE + 1)

Waiter == SPAWN_PIPELINE_SEMAPHORE + 1

ContenderCalls ==
    /\ \E i \in Contenders \cap Pipelines :
         /\ spawning.at[i] = "outside"
         /\ spawning' = [spawning EXCEPT !.at[i] = "waiting"]
    /\ UNCHANGED aside_spawning

SpawnExits(O) ==
    /\ \E i \in Pipelines, outcome \in O :
         /\ spawning.at[i] = "inside"
         /\ spawning' = spawn_pipeline_exit(spawning, i, outcome)
    /\ UNCHANGED aside_spawning

\* acquire() of the last contender completes
WaiterAcquires ==
    /\ spawning.at[Waiter] = "waiting"
    /\ spawning.permits > 0
    /\ spawning' = acquire(spawning, Waiter)
    /\ UNCHANGED aside_spawning

NextPermits ==
    ContenderCalls \/ SpawnAcquires \/ SpawnExits({"Ok", "Error"})

SpecPermits ==
    /\ InitSpawn
    /\ [][NextPermits]_vars
    /\ WF_spawning(SpawnExits({"Ok", "Error"}))
    /\ SF_spawning(WaiterAcquires)

\* -------------------------------------------------------------- SpecExit
\* One actor and its producers, one of which calls send_exit_with_success
\* on the actor's mailbox. The call is kept with the number of messages
\* each producer had enqueued when it was made. Handlers succeed or fail,
\* and the handle sends Pause, Resume and Quit.

CallSendExitWithSuccess ==
    /\ pc # "done"
    /\ call.fn = "none"
    /\ \E p \in producers :
         LET queues == send_exit_with_success(
                           [hi |-> hi_queue, lo |-> lo_queue], p)
         IN  hi_queue' = queues.hi /\ lo_queue' = queues.lo
    /\ call' = [fn |-> "send_exit_with_success", arg |-> sent, ret |-> 0]
    /\ UNCHANGED <<actor_state, sleep_count, dead, pc, cur, heap,
                   recv_timer, exit_status, finalize_calls, finalize_status,
                   hi_sent, handled, hi_handled, since_kill, after_kill>>
    /\ UNCHANGED <<histvars, envvars>>
    /\ UNCHANGED <<pipeline, handle, spawning>>

InitExit == InitWith(Producers)

NextExit ==
    \/ Initialize({"Ok"})
    \/ LoopTop
    \/ Recv
    \/ RecvTimeout
    \/ HandleReturn({"Ok", "Failure"})
    \/ Finalize
    \/ Exit
    \/ Tick
    \/ SendMessage(MaxSend)
    \/ SendCommand({"Pause", "Resume", "Quit"}, MaxCmds)
    \/ CallSendExitWithSuccess

SpecExit == InitExit /\ [][NextExit]_vars

\* ------------------------------------------------------------- SpecDrain
\* One actor whose producers send messages and drop their mailboxes, one
\* after the other. Handlers succeed or fail, and the handle sends Pause
\* and Quit. The loop keeps taking its steps and time keeps passing.

InitDrain == InitWith(Producers)

LoopStep ==
    \/ Initialize({"Ok"})
    \/ LoopTop
    \/ Recv
    \/ RecvDisconnected
    \/ RecvTimeout
    \/ HandleReturn({"Ok", "Failure"})
    \/ Finalize
    \/ Exit

NextDrain ==
    \/ LoopStep
    \/ Tick
    \/ SendMessage(MaxSend)
    \/ SendCommand({"Pause", "Quit"}, MaxCmds)
    \/ DropMailbox

SpecDrain ==
    InitDrain /\ [][NextDrain]_vars /\ WF_vars(LoopStep) /\ WF_vars(Tick)

\* -------------------------------------------------------------- SpecWake
\* An actor whose handlers call sleep and then succeed or fail, while
\* messages are sent to it and, while it sleeps, the handle sends Resume
\* and Quit, but no Pause. The loop keeps taking its steps, the scheduler keeps firing what
\* is due, and time keeps passing.

InitWake == InitWith({1})

WakeStep ==
    \/ Initialize({"Ok"})
    \/ LoopTop
    \/ Recv
    \/ RecvTimeout
    \/ HandleSleep({MaxSleepDuration})
    \/ HandleReturn({"Ok", "Failure"})
    \/ HandleWakeUp
    \/ Finalize
    \/ Exit

NextWake ==
    \/ WakeStep
    \/ SchedulerFire
    \/ Tick
    \/ SendMessage(MaxSend)
    \/ (actor_state = "Paused" /\ SendCommand({"Resume", "Quit"}, MaxCmds))

SpecWake ==
    /\ InitWake
    /\ [][NextWake]_vars
    /\ WF_vars(WakeStep)
    /\ WF_vars(SchedulerFire)
    /\ WF_vars(Tick)

\* -------------------------------------------------------------- SpecInit
\* An actor whose initialize returns Ok or Err(status), with producers that
\* may have queued messages before it does; its handlers succeed and
\* nothing else ends it. Beside it an IndexingPipeline, whose initialize
\* handles Spawn, Observe and Supervise.

InitInit == InitWith({1})

NextInit ==
    \/ Initialize(Outcomes)
    \/ LoopTop
    \/ Recv
    \/ RecvTimeout
    \/ HandleReturn({"Ok"})
    \/ Finalize
    \/ Exit
    \/ Tick
    \/ SendMessage(MaxSend)
    \/ PipelineInitialize(SpawnOutcomes)
    \/ PipelineHandle(SpawnOutcomes)

SpecInit == InitInit /\ [][NextInit]_vars

\* ------------------------------------------------------ SpecHealthcheck
\* healthcheck called on a pipeline whose eight children are in any states.
InitHealthcheck ==
    /\ InitActor({})
    /\ actor_state = "Idle"
    /\ \E ch \in [Children -> ChildState \ {"Absent"}] :
         pipeline = [IndexingPipeline_new EXCEPT !.status = "running",
                                                 !.handles = TRUE,
                                                 !.children = ch]
    /\ handle = ActorHandle_new
    /\ call = NoCall
    /\ spawning = Spawning_new

CallHealthcheck ==
    /\ call.fn = "none"
    /\ call' = [fn |-> "healthcheck", arg |-> 0, ret |-> healthcheck(pipeline)]
    /\ UNCHANGED aside_call

NextHealthcheck == CallHealthcheck

SpecHealthcheck == InitHealthcheck /\ [][NextHealthcheck]_vars

\* ----------------------------------------------------------------- claims

\* C1: in every way an actor stops (initialize error, handler error, Quit,
\* Kill, kill switch, ExitWithSuccess, mailbox dropped and drained) finalize
\* is invoked exactly once, with the exit status of the actor, and no handler
\* starts or runs once finalize has been invoked.
C1_FinalizeOnce ==
    /\ finalize_calls <= 1
    /\ finalize_calls = 1 <=> pc \in {"finalize", "done"}
    /\ finalize_calls = 1 =>
         /\ finalize_status = exit_status
         /\ exit_status \in ActorExitStatus
         /\ cur = NoMsg
    /\ pc = "handle" => finalize_calls = 0

\* An actor that handled a message and was then stopped by its kill switch.
C1_Witness ==
    /\ pc = "done"
    /\ finalize_calls = 1
    /\ finalize_status = "Killed"
    /\ handled[1] >= 1

\* C4: ActorContext::exit trips the actor's kill switch exactly when the exit
\* status is DownstreamClosed, Failure or Panicked; with Success, Quit or
\* Killed it leaves every kill switch as it was.
C4_ExitKillSwitch ==
    [][(pc = "finalize" /\ pc' = "done") =>
         IF exit_status \in {"DownstreamClosed", "Failure", "Panicked"}
         THEN /\ dead'["actor"]
              /\ \A s \in Switches \ {"actor"} : dead'[s] = dead[s]
         ELSE dead' = dead]_vars

\* An actor that exited with Failure and tripped its own switch only.
C4_Witness ==
    /\ pc = "done"
    /\ exit_status = "Failure"
    /\ dead["actor"]
    /\ ~dead["supervisor"]

\* C10: the actor state only moves Idle<->Processing, Idle/Processing->Paused,
\* Paused->Idle/Processing and non-terminal->Success/Failure; once it is
\* Success or Failure no call of process, idle, pause, resume or exit
\* changes it.
ValidTransition(a, b) ==
    \/ a = b
    \/ a = "Idle" /\ b = "Processing"
    \/ a = "Processing" /\ b = "Idle"
    \/ a \in {"Idle", "Processing"} /\ b = "Paused"
    \/ a = "Paused" /\ b \in {"Idle", "Processing"}
    \/ a \notin Terminal /\ b \in Terminal

C10_ValidTransitions ==
    [][/\ ValidTransition(actor_state, actor_state')
       /\ actor_state \in Terminal => actor_state' = actor_state]_vars

\* exit was called on an actor that had already exited with Success.
C10_Witness ==
    /\ actor_state = "Success"
    /\ cur.kind = "Failure"
    /\ sleep_count >= 3

\* C2: the messages one producer sends to a mailbox are handled in the order
\* it sent them, and the items of the high-priority queue (commands) are
\* processed in the order they were sent, whatever the other producers and
\* the commands do: each producer's messages, numbered as sent, are dispatched
\* as 1, 2, 3, ..., and so are the high-priority items.
C2_Fifo ==
    [][/\ \A p \in Producers : handled'[p] \in {handled[p], handled[p] + 1}
       /\ hi_handled' \in {hi_handled, hi_handled + 1}]_vars

\* Both producers had two messages handled, between them two commands.
C2_Witness ==
    /\ \A p \in Producers : handled[p] = 2
    /\ hi_handled = 2

\* C3: a pull with an item pending on the command (high-priority) queue
\* takes the oldest such item and leaves the message queue alone, otherwise
\* it takes the oldest message; so no message is dispatched while a command
\* is pending, and nothing is taken from the inbox while a handler runs.
C3_CommandsFirst ==
    [][/\ (hi_queue # <<>> /\ pc = "recv" /\ pc' # "recv") =>
            /\ hi_handled' = Head(hi_queue).id
            /\ hi_queue' = Tail(hi_queue)
            /\ lo_queue' = lo_queue
            /\ handled' = handled
       /\ (hi_queue = <<>> /\ lo_queue # <<>> /\ pc = "recv"
             /\ pc' = "handle") =>
            /\ cur' = Head(lo_queue)
            /\ lo_queue' = Tail(lo_queue)
       /\ pc = "handle" =>
            /\ hi_handled' = hi_handled
            /\ handled' = handled
            /\ Len(hi_queue') >= Len(hi_queue)
            /\ Len(lo_queue') >= Len(lo_queue)]_vars

\* A command was processed while two messages sent before it were queued.
C3_Witness ==
    /\ Len(lo_queue) = 2
    /\ hi_handled = 1
    /\ hi_sent = 1
    /\ \A p \in Producers : handled[p] = 0
    /\ pc = "loop"

\* A regular message is dispatched to its handler in this step.
DispatchesMessage == pc = "recv" /\ pc' = "handle" /\ cur'.kind = "Msg"

\* The pull of a paused actor times out in this step.
PausedPullTimesOut ==
    /\ pc = "recv"
    /\ actor_state = "Paused"
    /\ pc' = "loop"
    /\ hi_queue' = hi_queue
    /\ lo_queue' = lo_queue

C8_StaleWakeUpNoOp ==
    [][(pc = "handle" /\ cur.kind = "WakeUp" /\ ended_early[cur.arg]
          /\ pc' = "loop") =>
         actor_state' = actor_state]_vars

\* C9 as stated: while the actor is Paused no regular message is dispatched,
\* and its pull does not time out while a command (ExitWithSuccess included)
\* or a scheduled message is pending in its inbox.
C9_AllCommands ==
    [][/\ actor_state = "Paused" => handled' = handled
       /\ PausedPullTimesOut =>
            /\ hi_queue = <<>>
            /\ \A i \in 1..Len(lo_queue) : lo_queue[i].kind = "Msg"]_vars

\* C9 amended: while the actor is Paused nothing is taken from the
\* low-priority queue (regular messages and the ExitWithSuccess of
\* send_exit_with_success wait there), and its pull does not time out while
\* an item (a command sent with high priority or a scheduled message) is
\* pending on the high-priority queue.
C9_HighPriorityOnly ==
    [][/\ actor_state = "Paused" =>
            /\ handled' = handled
            /\ (pc = "recv" => lo_queue' = lo_queue \/ pc' = "recv")
       /\ PausedPullTimesOut => hi_queue = <<>>]_vars

\* A paused actor processed two commands and then waited a whole heartbeat
\* with a regular message queued.
C9_Witness ==
    /\ actor_state = "Paused"
    /\ pc = "recv"
    /\ recv_timer = 0
    /\ hi_handled = 2
    /\ lo_queue # <<>>
    /\ Head(lo_queue).kind = "Msg"

\* C5 as stated: once a kill switch above the actor is killed, the actor
\* handles none of the messages that were queued at that moment and is in a
\* terminal state when one heartbeat has passed.
C5_TerminalWithinHeartbeat ==
    /\ after_kill.queued = 0
    /\ since_kill > HEARTBEAT => actor_state \in Terminal

\* C5 amended: once the actor's kill switch or a switch it was derived from
\* is killed, the actor leaves its loop at its next check of the switch: it
\* starts at most one more handler (for the item the pull under way returns),
\* and if no user code was running at the kill and none was started after
\* it, finalize is invoked within one heartbeat; the actor is terminal once
\* finalize has returned.
C5_LeavesLoopWithinHeartbeat ==
    /\ after_kill.all <= 1
    /\ (since_kill > HEARTBEAT /\ ~after_kill.busy /\ after_kill.all = 0) =>
         /\ pc \in {"finalize", "done"}
         /\ finalize_calls = 1
    /\ pc = "done" => actor_state \in Terminal

\* The universe switch was killed while the actor waited in its pull; it
\* left its loop Killed and never handled the message sent afterwards.
C5_Witness ==
    /\ dead["universe"]
    /\ since_kill > HEARTBEAT
    /\ ~after_kill.busy
    /\ after_kill.all = 0
    /\ pc = "done"
    /\ exit_status = "Killed"
    /\ sent[1] > handled[1]

\* C6: a step that kills the pipeline's kill switch while the universe's
\* switch stays alive (a failing child's exit, or terminate) leaves the
\* supervisor's own switch alive and the IndexingPipeline actor where it was;
\* the supervisor's switch is never dead unless the universe's is.
C6_ChildKillSparesParent ==
    [][/\ (/\ ~pipeline.dead[pipeline.kill_switch]
           /\ pipeline'.dead[pipeline.kill_switch]
           /\ ~pipeline'.dead["universe"]) =>
              /\ ~pipeline'.dead["supervisor"]
              /\ pipeline'.status = pipeline.status
              /\ pipeline'.exit_status = "None"
       /\ pipeline'.dead["supervisor"] => pipeline'.dead["universe"]]_vars

\* The first generation's switch was killed and terminate has run; the
\* supervisor, its switch alive, has spawned the second generation.
C6_Witness ==
    /\ pipeline.dead[AttemptSwitch[1]]
    /\ ~pipeline.dead["supervisor"]
    /\ pipeline.status = "running"
    /\ pipeline.statistics.generation = 2
    /\ pipeline.handles

\* What a health check must have reported, given whether lack of progress
\* counts against an actor that was inside a protected zone
HealthReportedAs(unhealthy) ==
    LET c == handle.checked
    IN  handle.health # "None" =>
          /\ handle.health = "Success" <=> c.state = "Success"
          /\ handle.health = "FailureOrUnhealthy" <=>
                (c.state # "Success" /\ unhealthy)
          /\ handle.health = "Healthy" <=>
                (c.state # "Success" /\ ~unhealthy)

\* C11 as stated: the health is Success iff the state is terminal Success,
\* FailureOrUnhealthy iff the state is terminal Failure or the actor is not
\* paused and its progress counter did not advance between two consecutive
\* checks, and Healthy otherwise.
C11_HealthByCounter ==
    HealthReportedAs(
        \/ handle.checked.state = "Failure"
        \/ /\ handle.checked.state # "Paused"
           /\ ~handle.checked.advanced)

\* C11 amended: the health is Success iff the state is terminal Success,
\* FailureOrUnhealthy iff the state is terminal Failure or the actor is not
\* paused, is not inside a protected zone and its progress counter did not
\* advance between two consecutive checks, and Healthy otherwise; so an
\* actor inside a protected zone is never reported FailureOrUnhealthy.
C11_HealthByCounterAndGuard ==
    HealthReportedAs(
        \/ handle.checked.state = "Failure"
        \/ /\ handle.checked.state # "Paused"
           /\ ~handle.checked.guarded
           /\ ~handle.checked.advanced)

\* Two checks in a row found the actor waiting inside protect_future with
\* its counter where it was, and it is still reported Healthy.
C11_Witness ==
    /\ handle.health = "Healthy"
    /\ handle.checked.guarded
    /\ handle.checked.quiet = 2

\* C12: over its eight children healthcheck returns FailureOrUnhealthy if
\* some child is FailureOrUnhealthy, Success if none is FailureOrUnhealthy
\* and none is Healthy, and Healthy otherwise.
C12_Healthcheck ==
    call.fn = "healthcheck" =>
      LET is(c, h) == Supervisable_health(pipeline.children[c]) = h
      IN  call.ret =
            IF \E c \in Children : is(c, "FailureOrUnhealthy")
            THEN "FailureOrUnhealthy"
            ELSE IF \A c \in Children : ~is(c, "Healthy")
            THEN "Success"
            ELSE "Healthy"

\* healthcheck found a failure among children of which some still run and
\* some have finished.
C12_Witness ==
    /\ call.fn = "healthcheck"
    /\ call.ret = "FailureOrUnhealthy"
    /\ pipeline.children["source"] = "Success"
    /\ pipeline.children["indexer"] = "Running"
    /\ pipeline.children["uploader"] = "Stalled"
    /\ pipeline.children["publisher"] = "Running"

\* C13: when terminate returns, the pipeline's kill switch is dead, the
\* pipeline holds no handles, and every actor whose handle it held has ended.
C13_TerminateKillsAll ==
    [][(pipeline.handles /\ ~pipeline'.handles) =>
          /\ pipeline'.dead[pipeline.kill_switch]
          /\ pipeline'.released = {}]_vars

\* C14: once a Supervise check has found the pipeline FailureOrUnhealthy
\* and terminated generation g, then, the supervisor not being killed and
\* the spawn attempts ceasing to fail, the pipeline eventually holds the
\* handles of generation g + 1.
C14_Restarted ==
    \A g \in 1..MaxAttempts :
        (/\ pipeline.status = "running"
         /\ ~pipeline.handles
         /\ pipeline.statistics.generation = g
         /\ pipeline.statistics.num_spawn_attempts < MaxAttempts)
        ~> (/\ pipeline.handles
            /\ pipeline.statistics.generation = g + 1)

\* The first generation was terminated and the second one runs.
C14_Witness ==
    /\ pipeline.status = "running"
    /\ pipeline.handles
    /\ pipeline.statistics.generation = 2
    /\ pipeline.dead[AttemptSwitch[1]]
    /\ ~pipeline.dead[pipeline.kill_switch]

\* k retryable errors followed by one success
FailsThenSucceeds(k) == [i \in 1..(k + 1) |-> IF i <= k THEN "Error" ELSE "Ok"]

AllChildrenSucceeded ==
    /\ pipeline.handles
    /\ \A c \in Children : pipeline.children[c] = "Success"

\* C15: when the first k spawn attempts of a pipeline have failed with a
\* retryable error, attempt k + 1 has succeeded and all the children have
\* finished with Success, the pipeline eventually exits with status Success,
\* and its statistics then show generation 1 and k + 1 spawn attempts.
C15_RetryThenSuccess ==
    \A k \in 0..(MaxAttempts - 1) :
      (pipeline.attempts = FailsThenSucceeds(k) /\ AllChildrenSucceeded)
        ~> (/\ pipeline.status = "exited"
            /\ pipeline.exit_status = "Success"
            /\ pipeline.statistics.generation = 1
            /\ pipeline.statistics.num_spawn_attempts = k + 1)

C15_Witness ==
    /\ pipeline.attempts = FailsThenSucceeds(1)
    /\ AllChildrenSucceeded
    /\ pipeline.status = "exited"
    /\ pipeline.exit_status = "Success"
    /\ pipeline.statistics = [generation |-> 1, num_spawn_attempts |-> 2]

\* The Spawn messages among the scheduled ones
ScheduledSpawns(p) ==
    {m \in BagToSet(p.scheduled) : m.kind = "Spawn"}

\* C16: a spawn attempt that fails with IndexDoesNotExist, in initialize or
\* in a later Spawn, is the last one: the pipeline has exited with status
\* Success, and the step that made the attempt scheduled no Spawn.
C16_IndexDoesNotExistIsFinal ==
    /\ [](\A i \in DOMAIN pipeline.attempts :
            pipeline.attempts[i] = "IndexDoesNotExist"
              => /\ i = Len(pipeline.attempts)
                 /\ pipeline.status = "exited"
                 /\ pipeline.exit_status = "Success")
    /\ [][(/\ pipeline'.attempts # pipeline.attempts
           /\ pipeline'.attempts[Len(pipeline'.attempts)]
                  = "IndexDoesNotExist")
          => \A m \in ScheduledSpawns(pipeline') :
                /\ m \in ScheduledSpawns(pipeline)
                /\ CopiesIn(m, pipeline'.scheduled)
                     <= CopiesIn(m, pipeline.scheduled)]_vars

\* a later Spawn, after a retryable error, has met IndexDoesNotExist
C16_Witness ==
    /\ pipeline.attempts = <<"Error", "IndexDoesNotExist">>
    /\ pipeline.status = "exited"
    /\ pipeline.exit_status = "Success"

WaitDurationCalled == call.fn = "wait_duration_before_retry"

\* n <= m on usize
usize_le(n, m) ==
    \E i \in 1..5 :
      /\ \A j \in 1..(i - 1) : n[j] = m[j]
      /\ i <= 4 => n[i] < m[i]

\* n >= 9 on usize
AtLeastNine(n) == usize_le(usize(9), n)

\* C17: wait_duration_before_retry(n) is min(2^(n+1), 600) seconds for
\* every retry count n (2, 4, 8, 16, 512, 600 for n = 0, 1, 2, 3, 8, 9), it
\* is 600 s for every n >= 9, and it does not decrease when n grows.
C17_Backoff ==
    /\ [](WaitDurationCalled =>
            /\ ~call.ret.panicked
            /\ call.ret.secs = IF AtLeastNine(call.arg) THEN MAX_RETRY_DELAY
                               ELSE 2 ^ (call.arg[4] + 1))
    /\ [][(/\ WaitDurationCalled
           /\ WaitDurationCalled'
           /\ usize_le(call.arg, call'.arg))
          => /\ ~call.ret.panicked
             /\ ~call'.ret.panicked
             /\ call.ret.secs <= call'.ret.secs]_vars

\* the cast to u32 keeps the value of the count
CastKeepsValue(retry_count) == retry_count[1] = 0 /\ retry_count[2] = 0

\* the addition of 1 stays within u32
AddStaysInRange(retry_count) == as_u32(retry_count) # u32_MAX

\* C18: for every retry count of a 64-bit usize, the cast to u32, the
\* addition of 1 and the power of two are computed without overflow or
\* wrap-around, the exponent is at most 31, and the result lies between
\* 2 s and 600 s.
C18_NoOverflow ==
    WaitDurationCalled =>
      /\ CastKeepsValue(call.arg)
      /\ AddStaysInRange(call.arg)
      /\ ~call.ret.panicked
      /\ \A overflow_checks \in BOOLEAN :
            max_power(call.arg, overflow_checks).value <= 31
      /\ call.ret.secs >= 2
      /\ call.ret.secs <= MAX_RETRY_DELAY

InsideSpawnPipeline == {i \in Pipelines : spawning.at[i] = "inside"}

\* C19: at most 10 of the pipelines of the process are inside
\* spawn_pipeline at any time, and a pipeline that calls it while 10 are
\* inside stays waiting until one of them has left.
C19_AtMostTenSpawning ==
    /\ [](Cardinality(InsideSpawnPipeline) <= 10)
    /\ [][\A i \in Pipelines :
            (spawning.at[i] = "waiting" /\ spawning'.at[i] = "inside")
              => Cardinality(InsideSpawnPipeline) < 10]_vars

\* ten pipelines are inside and the eleventh waits
C19_Witness ==
    /\ Cardinality(InsideSpawnPipeline) = 10
    /\ \E i \in Pipelines : spawning.at[i] = "waiting"

ExitWithSuccessSent == call.fn = "send_exit_with_success"

\* The loop takes ExitWithSuccess from the low-priority queue
TakesExitWithSuccess ==
    /\ pc = "recv"
    /\ lo_queue # <<>>
    /\ Head(lo_queue).kind = "ExitWithSuccess"
    /\ lo_queue' = Tail(lo_queue)

\* The messages handled are those enqueued before ExitWithSuccess, all of
\* them and no other
HandledThoseBefore == \A p \in Producers : handled[p] = call.arg[p]

\* C20 as stated: once send_exit_with_success has enqueued ExitWithSuccess,
\* the destination exits with status Success, having handled every message
\* enqueued before it and none enqueued after it.
C20_DrainedThenSuccess ==
    (ExitWithSuccessSent /\ pc = "done")
      => (exit_status = "Success" /\ HandledThoseBefore)

\* C20, amended: ExitWithSuccess waits on the low-priority queue; when the
\* destination takes it, every message enqueued before it has been handled,
\* the destination leaves its loop and exits with status Success, and no
\* message enqueued after it is handled.
C20_DrainedWhenTaken ==
    /\ [][TakesExitWithSuccess =>
            /\ HandledThoseBefore
            /\ pc' = "break"
            /\ exit_status' = "Success"]_vars
    /\ []((ExitWithSuccessSent /\ exit_status = "Success")
            => /\ HandledThoseBefore
               /\ pc \in {"break", "finalize", "done"}
               /\ pc = "done" => actor_state = "Success")

\* the destination has exited on ExitWithSuccess with a message of each
\* kind around it: one enqueued before it, one after it
C20_Witness ==
    /\ ExitWithSuccessSent
    /\ pc = "done"
    /\ exit_status = "Success"
    /\ \E p \in Producers : call.arg[p] > 0 /\ handled[p] = call.arg[p]
    /\ \E p \in Producers : sent[p] > call.arg[p]

\* The WakeUp of sleep call n waits in the scheduler / in the
\* high-priority queue
WakeUpScheduled(n) ==
    \E i \in DOMAIN heap :
        heap[i].msg.kind = "WakeUp" /\ heap[i].msg.arg = n

WakeUpQueued(n) ==
    \E i \in DOMAIN hi_queue :
        hi_queue[i].kind = "WakeUp" /\ hi_queue[i].arg = n

\* The loop hands a regular message to its handler
TakesRegularMessage ==
    pc = "recv" /\ pc' = "handle" /\ cur'.kind = "Msg"

\* A scheduled message is put on the queue at most once and not before its
\* duration has elapsed, and while it waits there no regular message is
\* handled
ScheduledNotEarlyNotTwice ==
    /\ [](\A n \in 1..sleep_count :
            /\ fired[n] <= 1
            /\ fired[n] = 1 => sleep_left[n] = 0
            /\ WakeUpQueued(n) => fired[n] = 1)
    /\ [][(\E n \in 1..sleep_count : WakeUpQueued(n))
            => ~TakesRegularMessage]_vars

\* C21 as stated: schedule_self_msg(d, M) (here the WakeUp of a sleep) has
\* M put on the actor's high-priority queue exactly once, once d has
\* elapsed and never before, and M is then handled before every regular
\* message queued at that moment.
C21_ScheduledExactlyOnce ==
    /\ ScheduledNotEarlyNotTwice
    /\ [](\A n \in 1..sleep_count :
            (sleep_left[n] = 0 /\ ~WakeUpScheduled(n)) => fired[n] = 1)

\* C21, amended: M is put on the queue at most once and never before d has
\* elapsed; it is put there exactly once unless the actor has terminated
\* when the callback fires, in which case the failed send is ignored and M
\* is lost. While M waits in the queue no regular message is handled.
C21_ScheduledOnceIfAlive ==
    /\ ScheduledNotEarlyNotTwice
    /\ [](\A n \in 1..sleep_count :
            (sleep_left[n] = 0 /\ ~WakeUpScheduled(n))
              => (fired[n] = 1 \/ (fired[n] = 0 /\ pc = "done")))

\* a WakeUp has been fired, its duration over, into a queue where a regular
\* message waits, the actor having been resumed and being about to pull
C21_Witness ==
    /\ \E n \in 1..sleep_count : WakeUpQueued(n) /\ sleep_left[n] = 0
    /\ lo_queue # <<>>
    /\ actor_state # "Paused"
    /\ pc = "recv"

\* The handler of a WakeUp sent for an earlier sleep than the current one
\* returns
StaleWakeUpHandled ==
    /\ pc = "handle"
    /\ cur.kind = "WakeUp"
    /\ cur.arg # sleep_count
    /\ pc' = "loop"

\* The handler of the WakeUp of the most recent sleep returns
CurrentWakeUpHandled ==
    /\ pc = "handle"
    /\ cur.kind = "WakeUp"
    /\ cur.arg = sleep_count
    /\ pc' = "loop"

\* The loop takes a Resume command from the queue and processes it
ResumeProcessed ==
    /\ pc = "recv"
    /\ hi_queue # <<>>
    /\ Head(hi_queue).kind = "Resume"
    /\ hi_queue' = Tail(hi_queue)

LeavesPaused == actor_state = "Paused" /\ actor_state' # "Paused"

\* C25 as stated: a WakeUp whose sleep_count differs from the actor's
\* current sleep count never changes the actor state, and the actor stays
\* Paused until the WakeUp of the most recent sleep or a Resume command is
\* processed.
C25_PausedUntilWakeUpOrResume ==
    /\ [][StaleWakeUpHandled => actor_state' = actor_state]_vars
    /\ [][LeavesPaused => (CurrentWakeUpHandled \/ ResumeProcessed)]_vars

\* C25, amended: a WakeUp whose sleep_count differs from the actor's current
\* sleep count never changes the actor state, and the actor stays Paused
\* until the WakeUp of the most recent sleep or a Resume command is
\* processed, or the actor exits.
C25_PausedUntilWakeUpResumeOrExit ==
    /\ [][StaleWakeUpHandled => actor_state' = actor_state]_vars
    /\ [][LeavesPaused =>
            (CurrentWakeUpHandled \/ ResumeProcessed \/ pc' = "done")]_vars

\* One handler slept twice; the WakeUp of the first sleep has been handled
\* while the second sleep lasts, no command having been sent, and the actor
\* is Paused with a regular message waiting.
C25_Witness ==
    /\ sleep_count = 2
    /\ fired[1] = 1
    /\ fired[2] = 0
    /\ sleep_left[2] > 0
    /\ hi_handled = 1
    /\ cmds_sent = 0
    /\ pc = "recv"
    /\ actor_state = "Paused"
    /\ lo_queue # <<>>

Awake == actor_state \in {"Processing", "Idle"}

\* The actor has been ended: an exit status is set
Ended == exit_status # "None"

\* C26: an actor that sleeps, is not ended and gets no Pause is never Paused
\* for ever (also when it sleeps again meanwhile): it has left the Paused
\* state when the handler of the WakeUp of its most recent sleep returns,
\* and when a Resume command is processed; and every regular message sent
\* to it, while it slept or before, is handled in the end.
C26_SleeperWakesUp ==
    /\ []<>(Awake \/ Ended)
    /\ [][CurrentWakeUpHandled => Awake']_vars
    /\ [][ResumeProcessed => Awake']_vars
    /\ []<>(handled[1] = sent[1] \/ Ended)

\* The actor slept once and no command was sent; the WakeUp has been fired
\* and handled, and the second message, queued during the sleep, has been
\* handled after it.
C26_Witness ==
    /\ sleep_count = 1
    /\ fired[1] = 1
    /\ hi_handled = 1
    /\ cmds_sent = 0
    /\ handled[1] = 2
    /\ Awake
    /\ pc = "recv"

Running == pc \in {"initialize", "loop", "recv", "handle"}

AllHandled == \A p \in Producers : handled[p] = sent[p]

\* The pull finds the channel closed: the loop breaks with Success without
\* having taken anything from the queues
ExitsDisconnected ==
    /\ pc = "recv"
    /\ pc' = "break"
    /\ exit_status' = "Success"
    /\ UNCHANGED <<hi_queue, lo_queue>>

\* An actor terminates on the drop of its mailboxes only when no producer
\* handle is alive and no message is queued
DisconnectedOnlyWhenDrained ==
    [][ExitsDisconnected =>
         /\ producers = {}
         /\ hi_queue = <<>>
         /\ lo_queue = <<>>
         /\ AllHandled]_vars

\* C22 as stated: an actor whose producer handles have all been dropped
\* leaves its loop only with every queued message handled and with status
\* Success, and it does not terminate this way while a producer handle is
\* alive or a message is queued.
C22_DrainsThenSuccess ==
    /\ DisconnectedOnlyWhenDrained
    /\ [][(producers = {} /\ Running /\ pc' = "break")
            => (exit_status' = "Success" /\ lo_queue = <<>> /\ AllHandled)]_vars

\* C22, amended: an actor whose producer handles have all been dropped
\* eventually has handled every queued message and terminated with
\* Success, unless something else ends it first or it is paused; and it
\* does not terminate this way while a producer handle is alive or a
\* message is queued.
C22_DrainsUnlessEnded ==
    /\ DisconnectedOnlyWhenDrained
    /\ (producers = {} /\ Running)
         ~> \/ pc = "done" /\ exit_status = "Success" /\ AllHandled
            \/ exit_status \notin {"None", "Success"}
            \/ actor_state = "Paused"

\* the actor has terminated on the drop of its mailboxes, after messages
C22_Witness ==
    /\ pc = "done"
    /\ producers = {}
    /\ exit_status = "Success"
    /\ AllHandled
    /\ \E p \in Producers : sent[p] = MaxSend

\* initialize has returned Err: in SpecInit nothing else ends the actor
InitializeFailed == exit_status # "None"

\* C23: when initialize returns Err(status) the actor handles no message,
\* finalize is called, once, with that status, the actor terminates with
\* that status, and the kill switch is killed exactly if
\* should_activate_kill_switch(status). An IndexingPipeline whose initial
\* Spawn ends in Err has no Observe and no Supervise scheduled.
C23_InitializeError ==
    /\ InitializeFailed =>
         /\ \A p \in Producers : handled[p] = 0
         /\ cur = NoMsg
         /\ pc \in {"break", "finalize", "done"}
         /\ pc = "break" => finalize_calls = 0
         /\ pc \in {"finalize", "done"} =>
               finalize_calls = 1 /\ finalize_status = exit_status
         /\ pc = "done" =>
               /\ actor_state = exit_state("Idle", exit_status)
               /\ dead["actor"] = should_activate_kill_switch(exit_status)
    /\ (pipeline.attempts # << >>
          /\ pipeline.attempts[1] = "IndexDoesNotExist") =>
         /\ pipeline.status = "exited"
         /\ pipeline.exit_status = "Success"
         /\ pipeline.scheduled = EmptyBag

\* initialize has failed with a message waiting in the queue, and the actor
\* has terminated; the pipeline's initial Spawn has ended in Err
C23_Witness ==
    /\ InitializeFailed
    /\ exit_status = "Failure"
    /\ pc = "done"
    /\ sent[1] > 0
    /\ pipeline.attempts = <<"IndexDoesNotExist">>
    /\ pipeline.status = "exited"

HelperSuspended == call.fn \in Helpers /\ call.ret = "suspended"

\* C24: while one of the helpers send_message, ask, ask_for_res,
\* send_exit_with_success and schedule_self_msg is suspended on its
\* destination, the caller holds one protected zone more than before the
\* call and is reported Healthy; when the helper returns, with Ok or with
\* an error, the zones open are as many as before the call.
C24_HelpersProtected ==
    /\ [](HelperSuspended =>
            /\ handle.guards = call.arg.guards + 1
            /\ handle.protected = handle.guards
            /\ ActorHandle_health(handle) = "Healthy")
    /\ [][(HelperSuspended /\ ~HelperSuspended')
            => /\ handle'.guards = call.arg.guards
               /\ handle'.protected = handle'.guards]_vars

\* schedule_self_msg, called as the future of protect_future, has returned
\* an error to a caller that the health checks report Healthy
C24_Witness ==
    /\ call.fn = "schedule_self_msg"
    /\ call.ret = "Err"
    /\ call.arg.guards = 1
    /\ handle.at = "protect_future"
    /\ handle.guards = 1
    /\ handle.checked.guarded = FALSE
    /\ handle.health = "Healthy"

\* What the loop hands to Handler<Supervise>: the pipeline with the
\* Supervise message m taken from its outstanding self-messages
SuperviseInput(m) == [pipeline EXCEPT !.scheduled = @ (-) SetToBag({m})]

NextSupervise ==
    [kind |-> "Supervise", retry_count |-> 0, after |-> HEARTBEAT]

FirstSpawn == [kind |-> "Spawn", retry_count |-> 0, after |-> HEARTBEAT]

\* The one of the four cases of Handler<Supervise> that applies to p, and
\* what the handler has to have done in it
SuperviseCase(p) ==
    LET r == Supervise_handle(p)
        after == PipelineReturn(r)
        only_rescheduled ==
            /\ r.res = "Ok"
            /\ r.p = [p EXCEPT !.scheduled = @ (+) SetToBag({NextSupervise})]
            /\ after.status = "running"
    IN  CASE ~p.handles -> only_rescheduled
          [] p.handles /\ healthcheck(p) = "Healthy" -> only_rescheduled
          [] p.handles /\ healthcheck(p) = "FailureOrUnhealthy" ->
               /\ r.res = "Ok"
               /\ ~r.p.handles
               /\ r.p.dead[p.kill_switch]
               /\ \A c \in Children : r.p.children[c] = "Absent"
               /\ r.p.scheduled = (p.scheduled (+) SetToBag({FirstSpawn}))
                                     (+) SetToBag({NextSupervise})
               /\ r.p.statistics = p.statistics
               /\ after.status = "running"
          [] p.handles /\ healthcheck(p) = "Success" ->
               /\ r.res = "Success"
               /\ r.p = p
               /\ after.status = "exited"
               /\ after.exit_status = "Success"
               /\ after.scheduled = p.scheduled

\* C27: handling Supervise does what its case asks for and nothing else:
\* without handles, and with handles that are Healthy, it only reschedules
\* Supervise after one heartbeat; with handles that are FailureOrUnhealthy
\* it terminates the children so that handles is None, and schedules one
\* Spawn with retry_count 0 and one Supervise, each after one heartbeat;
\* with handles that are Success it returns Err(Success), the pipeline
\* exits with Success, and nothing is scheduled.
C27_SuperviseCases ==
    pipeline.status = "running" =>
        \A m \in BagToSet(pipeline.scheduled) :
            m.kind = "Supervise" => SuperviseCase(SuperviseInput(m))

\* Supervise has found the first generation FailureOrUnhealthy: the handles
\* are gone, the children's switch is dead, and the Spawn with retry_count
\* 0 waits beside the next Supervise
C27_Witness ==
    /\ pipeline.status = "running"
    /\ ~pipeline.handles
    /\ pipeline.statistics.generation = 1
    /\ pipeline.dead[pipeline.kill_switch]
    /\ CopiesIn(FirstSpawn, pipeline.scheduled) = 1
    /\ CopiesIn(NextSupervise, pipeline.scheduled) = 1

\* What the handle of the actor reports to a supervisor
HealthSeen == ActorHandle_health([ActorHandle_new EXCEPT !.state = actor_state])

\* C28: once the loop has called ActorContext::exit, the actor state is
\* Success if and only if the exit status is Success; after every other
\* exit status (Quit and Killed included) it is Failure, and the actor's
\* handle reports FailureOrUnhealthy.
C28_ExitState ==
    pc = "done" =>
        /\ actor_state = "Success" <=> exit_status = "Success"
        /\ exit_status # "Success" =>
              /\ actor_state = "Failure"
              /\ HealthSeen = "FailureOrUnhealthy"

\* The actor has exited on a Quit command
C28_Witness ==
    /\ pc = "done"
    /\ exit_status = "Quit"
    /\ actor_state = "Failure"
    /\ HealthSeen = "FailureOrUnhealthy"

\* The Spawn messages outstanding: scheduled or queued. A handler runs in
\* one step, so none is being handled in a state
OutstandingSpawns(p) ==
    LET spawns == ScheduledSpawns(p)
        RECURSIVE Sum(_)
        Sum(S) == IF S = {} THEN 0
                  ELSE LET m == CHOOSE x \in S : TRUE
                       IN  CopiesIn(m, p.scheduled) + Sum(S \ {m})
    IN  Sum(spawns)

\* At most one Spawn is outstanding, and none while handles is Some
OneSpawnAtMost ==
    /\ OutstandingSpawns(pipeline) <= 1
    /\ pipeline.handles => OutstandingSpawns(pipeline) = 0

\* C29: at most one Spawn message is outstanding, and none while handles is
\* Some; consequently no actor of an earlier generation is alive while the
\* pipeline holds the handles of a generation.
C29_OneSpawnOneGeneration ==
    /\ OneSpawnAtMost
    /\ pipeline.handles => pipeline.released = {}

\* The spawn attempts of the history that succeeded
Succeeded(attempts) == {i \in DOMAIN attempts : attempts[i] = "Ok"}

\* What the loop hands to Handler<Observe>: the pipeline with the Observe
\* message m taken from its outstanding self-messages
ObserveInput(m) == [pipeline EXCEPT !.scheduled = @ (-) SetToBag({m})]

\* The statistics count the attempts and the successes
StatisticsCount ==
    /\ pipeline.statistics.num_spawn_attempts = Len(pipeline.attempts)
    /\ pipeline.statistics.generation
          = Cardinality(Succeeded(pipeline.attempts))
    /\ pipeline.statistics.generation
          <= pipeline.statistics.num_spawn_attempts

\* Handler<Observe> leaves both counts as they are
ObserveKeepsCounts ==
    \A m \in BagToSet(pipeline.scheduled) :
        m.kind = "Observe" =>
            LET p == ObserveInput(m)
                after == Observe_handle(p).p.statistics
            IN  /\ after.generation = p.statistics.generation
                /\ after.num_spawn_attempts = p.statistics.num_spawn_attempts

\* Neither count decreases, and generation grows by one in a step that
\* ends with all eight children spawned and their handles held
CountsGrow ==
    /\ pipeline'.statistics.num_spawn_attempts
          >= pipeline.statistics.num_spawn_attempts
    /\ pipeline'.statistics.generation >= pipeline.statistics.generation
    /\ pipeline'.statistics.generation # pipeline.statistics.generation =>
          /\ pipeline'.statistics.generation
                = pipeline.statistics.generation + 1
          /\ pipeline'.attempts = Append(pipeline.attempts, "Ok")
          /\ pipeline'.handles
          /\ \A c \in Children : pipeline'.children[c] = "Running"

\* C30: statistics.num_spawn_attempts is the number of spawn_pipeline
\* attempts made so far and statistics.generation the number of those that
\* succeeded, so generation <= num_spawn_attempts; neither ever decreases,
\* generation is incremented only by an attempt that spawned every child
\* without error, and the Observe handler changes neither.
C30_StatisticsCount ==
    /\ [](StatisticsCount /\ ObserveKeepsCounts)
    /\ [][CountsGrow]_vars

\* The second generation runs after two successful attempts; the statistics
\* kept from the previous generations still show generation 1, which
\* Observe has not copied
C30_Witness ==
    /\ pipeline.attempts = <<"Ok", "Ok">>
    /\ pipeline.handles
    /\ pipeline.statistics = [generation |-> 2, num_spawn_attempts |-> 2]
    /\ pipeline.previous_generations_statistics.generation = 1
    /\ \E m \in BagToSet(pipeline.scheduled) : m.kind = "Observe"

\* The loop takes a Spawn from the outstanding messages of a pipeline that
\* holds handles, and its handler returns
SpawnTakenWithHandles ==
    /\ pipeline.status = "running"
    /\ pipeline.handles
    /\ OutstandingSpawns(pipeline') = OutstandingSpawns(pipeline) - 1

\* C31: handling a Spawn while the pipeline holds handles returns Ok (the
\* pipeline keeps running) and changes nothing: handles, kill switch,
\* statistics, previous-generations statistics and the scheduled messages
\* (but for the Spawn taken) are as before, and spawn_pipeline, where the
\* permit is acquired, has not been called (no attempt is added).
C31_SpawnWithHandlesNoOp ==
    [][SpawnTakenWithHandles =>
         \E m \in ScheduledSpawns(pipeline) :
             pipeline' = [pipeline EXCEPT !.scheduled = @ (-) SetToBag({m})]]_vars

\* A Spawn was sent to a pipeline that has held the handles of its first
\* generation since initialize, and it has been handled
C31_Witness ==
    /\ SpawnsSent = 1
    /\ pipeline.status = "running"
    /\ pipeline.handles
    /\ pipeline.attempts = <<"Ok">>
    /\ OutstandingSpawns(pipeline) = 0

NextObserve == [kind |-> "Observe", retry_count |-> 0, after |-> 1]

\* The outstanding messages of one kind
RECURSIVE CopiesOf(_, _)
CopiesOf(bag, S) ==
    IF S = {} THEN 0
    ELSE LET m == CHOOSE x \in S : TRUE
         IN  CopiesIn(m, bag) + CopiesOf(bag, S \ {m})

Outstanding(p, kind) ==
    CopiesOf(p.scheduled, {m \in BagToSet(p.scheduled) : m.kind = kind})

\* One Observe, due after 1 s, and one Supervise, due after one heartbeat,
\* are outstanding
OneOfEach(p) ==
    /\ Outstanding(p, "Observe") = 1
    /\ CopiesIn(NextObserve, p.scheduled) = 1
    /\ Outstanding(p, "Supervise") = 1
    /\ CopiesIn(NextSupervise, p.scheduled) = 1

\* Handling the outstanding Observe or Supervise leaves one of each again,
\* unless Supervise ends the pipeline with Err(Success)
SuccessorScheduled ==
    \A m \in BagToSet(pipeline.scheduled) :
        LET p == [pipeline EXCEPT !.scheduled = @ (-) SetToBag({m})]
        IN  /\ m.kind = "Observe" =>
                 /\ Observe_handle(p).res = "Ok"
                 /\ OneOfEach(Observe_handle(p).p)
            /\ m.kind = "Supervise" =>
                 \/ Supervise_handle(p).res = "Success"
                 \/ /\ Supervise_handle(p).res = "Ok"
                    /\ OneOfEach(Supervise_handle(p).p)

\* C32: from the end of a successful initialize until the pipeline exits,
\* exactly one Supervise (due after one heartbeat) and exactly one Observe
\* (due after 1 s) are outstanding, and handling either schedules exactly
\* one successor.
C32_OneObserveOneSupervise ==
    pipeline.status = "running" =>
        /\ OneOfEach(pipeline)
        /\ SuccessorScheduled

\* The first generation was terminated and the respawn has failed: the
\* pipeline runs without handles, a retry is outstanding, and the two
\* periodic messages are there
C32_Witness ==
    /\ pipeline.status = "running"
    /\ pipeline.attempts = <<"Ok", "Error">>
    /\ ~pipeline.handles
    /\ OutstandingSpawns(pipeline) = 1
    /\ OneOfEach(pipeline)

\* min(2^(r + 1), 600) seconds
RetryDelay(r) == IF 2 ^ (r + 1) < 600 THEN 2 ^ (r + 1) ELSE 600

RetrySpawn(r) ==
    [kind |-> "Spawn", retry_count |-> r + 1, after |-> RetryDelay(r)]

\* A spawn attempt has failed with an error other than IndexDoesNotExist
RetryableFailure == pipeline'.attempts = Append(pipeline.attempts, "Error")

\* The Spawn messages after the failed attempt are those before it with
\* the one handled, of retry count r, replaced by one of count r + 1 due
\* after min(2^(r + 1), 600) s; in initialize r is 0 and none is replaced
RetryScheduled ==
    IF pipeline.status = "initialize"
    THEN /\ ScheduledSpawns(pipeline') = {RetrySpawn(0)}
         /\ CopiesIn(RetrySpawn(0), pipeline'.scheduled) = 1
    ELSE \E m \in ScheduledSpawns(pipeline) :
            pipeline'.scheduled =
                (pipeline.scheduled (-) SetToBag({m}))
                    (+) SetToBag({RetrySpawn(m.retry_count)})

\* A Spawn with retry count 0 becomes outstanding
CountRestarts ==
    \E m \in ScheduledSpawns(pipeline') :
        /\ m.retry_count = 0
        /\ CopiesIn(m, pipeline'.scheduled) > CopiesIn(m, pipeline.scheduled)

SpawnAttempted == Len(pipeline'.attempts) = Len(pipeline.attempts) + 1

\* The switches of the attempts made so far
EarlierSwitches ==
    {pipeline.kill_switch}
        \cup {AttemptSwitch[i] : i \in 1..Len(pipeline.attempts)}

\* A child of the generation whose handles are held has left its loop
\* with a failure
ChildFailed == \E c \in Children : pipeline.children[c] = "Failure"

\* C34: every spawn attempt installs a pipeline kill switch that no
\* earlier attempt had, a child of the supervisor's switch, dead at that
\* moment only if the supervisor's own switch is dead, and the children
\* it spawns are under it; the switch of the generation whose handles are
\* held is dead only if the supervisor's switch is dead or a child of
\* that generation failed, whatever was killed in earlier generations;
\* and a child ends by its kill switch only when the switch of its own
\* generation is dead.
C34_FreshKillSwitch ==
    /\ [][SpawnAttempted =>
            /\ pipeline'.kill_switch \notin EarlierSwitches
            /\ SwitchParent(pipeline'.kill_switch) = "supervisor"
            /\ pipeline'.dead = pipeline.dead
            /\ pipeline'.dead[pipeline'.kill_switch]
                  <=> pipeline.dead["supervisor"]
            /\ pipeline'.handles =>
                  \A c \in Children : pipeline'.children[c] = "Running"]_vars
    /\ [](pipeline.handles /\ pipeline.dead[pipeline.kill_switch]
            => pipeline.dead["supervisor"] \/ ChildFailed)
    /\ [][\A c \in Children :
              /\ pipeline.children[c] \in {"Running", "Stalled"}
              /\ pipeline'.children[c] = "Failure"
              /\ pipeline'.dead = pipeline.dead
              => pipeline.dead[pipeline.kill_switch]]_vars

\* The second generation runs under a live switch while the switch of the
\* first, killed by a failed child and by terminate, is dead
C34_Witness ==
    /\ pipeline.status = "running"
    /\ pipeline.handles
    /\ pipeline.statistics.generation = 2
    /\ pipeline.kill_switch = AttemptSwitch[2]
    /\ pipeline.dead[AttemptSwitch[1]]
    /\ ~pipeline.dead[AttemptSwitch[2]]
    /\ \A c \in Children : pipeline.children[c] = "Running"

\* The pipelines whose spawn_pipeline holds a permit
PermitHolders == {i \in Pipelines : spawning.permit[i]}

\* C35: a permit is held by exactly the pipelines inside spawn_pipeline
\* and the semaphore has the other permits of its 10, so that all 10 are
\* available when no pipeline is inside; a step in which spawn_pipeline
\* returns, with Ok or with an error, gives its permit back; and, every
\* attempt in progress returning, the pipeline that asks while the ten
\* others may hold the permits does not wait for ever.
C35_PermitGivenBack ==
    /\ [](/\ PermitHolders = InsideSpawnPipeline
          /\ spawning.permits
                = SPAWN_PIPELINE_SEMAPHORE - Cardinality(InsideSpawnPipeline)
          /\ InsideSpawnPipeline = {}
                => spawning.permits = SPAWN_PIPELINE_SEMAPHORE)
    /\ [][InsideSpawnPipeline' \subseteq InsideSpawnPipeline
            => spawning'.permits
                 = spawning.permits
                     + Cardinality(InsideSpawnPipeline \ InsideSpawnPipeline')
         ]_vars
    /\ []<>(spawning.at[Waiter] # "waiting")

\* The ten other contenders hold the ten permits and the last one waits
C35_Witness ==
    /\ spawning.at[Waiter] = "waiting"
    /\ spawning.permits = 0
    /\ PermitHolders = Contenders \ {Waiter}

====
